---- MODULE Spec2Model ----
(***************************************************************************)
(* Parser runtime of powerquery-parser: the parser state with its          *)
(* speculative backup / restore (IParserStateUtils.ts) over the node-id    *)
(* map, and the scope visitors of the position inspector (visitNode.ts).   *)
(***************************************************************************)
EXTENDS Integers, Sequences, FiniteSets, TLC

VARIABLES lexerSnapshot, tokenIndex, maybeCurrentToken, maybeCurrentTokenKind,
          contextState, maybeCurrentContextNode, backups, startedById,
          priorIdCounter, idHighWater, lastOp, inspection

parserVars == <<lexerSnapshot, tokenIndex, maybeCurrentToken, maybeCurrentTokenKind,
                contextState, maybeCurrentContextNode, backups, startedById,
                priorIdCounter, idHighWater, lastOp>>

vars == <<lexerSnapshot, tokenIndex, maybeCurrentToken, maybeCurrentTokenKind,
          contextState, maybeCurrentContextNode, backups, startedById,
          priorIdCounter, idHighWater, lastOp, inspection>>

\* ------------------------------------------------------------------------
\* Bounds of the model
\* ------------------------------------------------------------------------
\* most tokens in the lexer snapshot
MaxTokens == 2
\* most ids minted past the id counter the modelled stretch of a session
\* starts with
MaxMint == 3
\* most entries of one node's childIdsById
MaxChildren == 2
\* most backups held by enclosing try/catch frames at one time
MaxBackups == 1
\* the attribute counter of a context is not advanced past this value
MaxAttr == 1

\* `undefined` for numbers (node ids, attribute indices)
Undefined == -1

\* ------------------------------------------------------------------------
\* Tokens and the lexer snapshot
\* ------------------------------------------------------------------------
\* `undefined` where a Language.Token is expected
UndefinedToken ==
    [kind |-> "undefined",
     positionStart |-> [lineNumber |-> Undefined, lineCodeUnit |-> Undefined],
     positionEnd |-> [lineNumber |-> Undefined, lineCodeUnit |-> Undefined]]

\* the i-th token (0-based) of a document: tokens sit one after another,
\* two on each line
TokenOf(i) ==
    [kind |-> IF i % 2 = 0 THEN "Identifier" ELSE "Comma",
     positionStart |-> [lineNumber |-> i \div 2, lineCodeUnit |-> 3 * (i % 2)],
     positionEnd |-> [lineNumber |-> i \div 2, lineCodeUnit |-> 3 * (i % 2) + 2]]

\* lexerSnapshot.tokens of a document of n tokens
SnapshotOf(n) == [i \in 1..n |-> TokenOf(i - 1)]

\* an index that is off by one token
TokenAtNext(tokens, i) ==
    IF i + 1 >= 0 /\ i + 1 < Len(tokens) THEN tokens[i + 2] ELSE UndefinedToken

\* lexerSnapshot.tokens[i], `undefined` out of range
TokenAt(tokens, i) ==
    IF i >= 0 /\ i < Len(tokens) THEN tokens[i + 1] ELSE UndefinedToken

\* maybeToken?.kind
KindOf(token) == token.kind

\* ------------------------------------------------------------------------
\* Maps (Map<number, T>) as functions over their key set
\* ------------------------------------------------------------------------
EmptyMap == [k \in {} |-> Undefined]

MapHas(m, k) == k \in DOMAIN m

MapSet(m, k, v) == [x \in (DOMAIN m) \cup {k} |-> IF x = k THEN v ELSE m[x]]

MapDelete(m, k) == [x \in (DOMAIN m) \ {k} |-> m[x]]

\* Map.get on a map of numbers
MapGetId(m, k) == IF k \in DOMAIN m THEN m[k] ELSE Undefined

\* sequence without every occurrence of x
RECURSIVE SeqWithout(_, _)
SeqWithout(s, x) ==
    IF s = <<>> THEN <<>>
    ELSE IF Head(s) = x THEN SeqWithout(Tail(s), x)
         ELSE <<Head(s)>> \o SeqWithout(Tail(s), x)

SeqToSet(s) == {s[i] : i \in 1..Len(s)}

\* ------------------------------------------------------------------------
\* ParseContext state (ParseContextUtils; described by the specification)
\* ------------------------------------------------------------------------
NewNodeIdMapCollection ==
    [astNodeById |-> EmptyMap, contextNodeById |-> EmptyMap,
     parentIdById |-> EmptyMap, childIdsById |-> EmptyMap]

\* ParseContextUtils.newState
NewContextState == [idCounter |-> 0, nodeIdMapCollection |-> NewNodeIdMapCollection]

\* ids of the nodes alive in the collection
LiveIds(coll) == (DOMAIN coll.astNodeById) \cup (DOMAIN coll.contextNodeById)

\* removes childId from childIdsById[parentId]; a parent left without
\* children has no entry
Unlink(coll, parentId, childId) ==
    IF ~MapHas(coll.childIdsById, parentId) THEN coll
    ELSE LET rest == SeqWithout(coll.childIdsById[parentId], childId)
         IN [coll EXCEPT !.childIdsById =
                IF rest = <<>> THEN MapDelete(@, parentId) ELSE MapSet(@, parentId, rest)]

\* ParseContextUtils.startContext: mints the next id, allocates the context
\* node with the parent's attributeCounter as its attribute index, and links
\* it under the parent
CtxStartContext(cs, nodeKind, tokenIndexStart, maybeTokenStart, maybeParentId) ==
    LET nodeId == cs.idCounter + 1
        coll == cs.nodeIdMapCollection
        hasParent == maybeParentId # Undefined
        node == [id |-> nodeId,
                 kind |-> nodeKind,
                 maybeAttributeIndex |->
                    IF hasParent THEN coll.contextNodeById[maybeParentId].attributeCounter
                    ELSE Undefined,
                 tokenIndexStart |-> tokenIndexStart,
                 maybeTokenStart |-> maybeTokenStart,
                 attributeCounter |-> 0]
        linked == IF hasParent
                  THEN [coll EXCEPT
                          !.childIdsById =
                              MapSet(@, maybeParentId,
                                     IF MapHas(@, maybeParentId)
                                     THEN Append(@[maybeParentId], nodeId)
                                     ELSE <<nodeId>>),
                          !.parentIdById = MapSet(@, nodeId, maybeParentId)]
                  ELSE coll
    IN [idCounter |-> nodeId,
        nodeIdMapCollection |->
            [linked EXCEPT !.contextNodeById = MapSet(@, nodeId, node)]]

\* the parent context of a node, if the parent is (still) a context
ParentContextOf(coll, nodeId) ==
    LET maybeParentId == MapGetId(coll.parentIdById, nodeId)
    IN IF maybeParentId # Undefined /\ MapHas(coll.contextNodeById, maybeParentId)
       THEN maybeParentId ELSE Undefined

\* ParseContextUtils.endContext: removes the context node from
\* contextNodeById and inserts the AST node into astNodeById at the same id
CtxEndContext(cs, contextNodeId, astNode) ==
    [cs EXCEPT !.nodeIdMapCollection =
        [@ EXCEPT !.contextNodeById = MapDelete(@, contextNodeId),
                  !.astNodeById = MapSet(@, astNode.id, astNode)]]

\* ParseContextUtils.deleteContext: removes the context node and unlinks it
\* from its parent
CtxDeleteContext(cs, nodeId) ==
    LET coll == cs.nodeIdMapCollection
        maybeParentId == MapGetId(coll.parentIdById, nodeId)
        unlinked == IF maybeParentId # Undefined
                    THEN Unlink(coll, maybeParentId, nodeId) ELSE coll
    IN [cs EXCEPT !.nodeIdMapCollection =
            [unlinked EXCEPT !.contextNodeById = MapDelete(@, nodeId),
                             !.childIdsById = MapDelete(@, nodeId),
                             !.parentIdById = MapDelete(@, nodeId)]]

\* ParseContextUtils.deleteAst: removes the AST node; it is unlinked from its
\* parent's childIdsById unless the caller says the parent will be deleted
CtxDeleteAst(cs, nodeId, parentWillBeDeleted) ==
    LET coll == cs.nodeIdMapCollection
        maybeParentId == MapGetId(coll.parentIdById, nodeId)
        unlinked == IF maybeParentId # Undefined /\ ~parentWillBeDeleted
                    THEN Unlink(coll, maybeParentId, nodeId) ELSE coll
    IN [cs EXCEPT !.nodeIdMapCollection =
            [unlinked EXCEPT !.astNodeById = MapDelete(@, nodeId),
                             !.childIdsById = MapDelete(@, nodeId),
                             !.parentIdById = MapDelete(@, nodeId)]]

\* ------------------------------------------------------------------------
\* Array.prototype.sort() without a comparator, and reverse()
\* ------------------------------------------------------------------------
\* String(n) as the sequence of its decimal digits
RECURSIVE DigitsOf(_)
DigitsOf(n) == IF n < 10 THEN <<n>> ELSE Append(DigitsOf(n \div 10), n % 10)

\* a < b in the order of their strings (code unit by code unit, a proper
\* prefix first)
RECURSIVE SeqLexLess(_, _)
SeqLexLess(a, b) ==
    IF b = <<>> THEN FALSE
    ELSE IF a = <<>> THEN TRUE
    ELSE IF Head(a) # Head(b) THEN Head(a) < Head(b)
    ELSE SeqLexLess(Tail(a), Tail(b))

StringLess(m, n) == SeqLexLess(DigitsOf(m), DigitsOf(n))

\* the order a comparator-less sort() uses on numbers
SortLess(m, n) == StringLess(m, n)

\* the array holding the numbers of S after sort()
RECURSIVE DefaultSort(_)
DefaultSort(S) ==
    IF S = {} THEN <<>>
    ELSE LET least == CHOOSE x \in S : \A y \in S \ {x} : SortLess(x, y)
         IN <<least>> \o DefaultSort(S \ {least})

Reverse(s) == [i \in 1..Len(s) |-> s[Len(s) + 1 - i]]

\* ------------------------------------------------------------------------
\* IParserStateUtils: backup and restore
\* ------------------------------------------------------------------------
\* `if (x)` on a number | undefined
Truthy(n) == n # Undefined /\ n # 0

\* fastStateBackup
FastStateBackupOf(index, cs, maybeContextNode) ==
    [tokenIndex |-> index,
     contextStateIdCounter |-> cs.idCounter,
     maybeContextNodeId |-> maybeContextNode]

\* a restore that spares the first node minted after the backup
IsNewNodeIdSkippingFirst(nodeId, backupIdCounter) == nodeId > backupIdCounter + 1

\* applyFastStateBackup: is nodeId collected as a new node
IsNewNodeId(nodeId, backupIdCounter) == nodeId > backupIdCounter

NewAstNodeIds(coll, backupIdCounter) ==
    {nodeId \in DOMAIN coll.astNodeById : IsNewNodeId(nodeId, backupIdCounter)}

NewContextNodeIds(coll, backupIdCounter) ==
    {nodeId \in DOMAIN coll.contextNodeById : IsNewNodeId(nodeId, backupIdCounter)}

\* applyFastStateBackup: the order the new AST / context nodes are deleted in
AstDeleteOrder(coll, backupIdCounter) ==
    Reverse(DefaultSort(NewAstNodeIds(coll, backupIdCounter)))

ContextDeleteOrder(coll, backupIdCounter) ==
    Reverse(DefaultSort(NewContextNodeIds(coll, backupIdCounter)))

\* applyFastStateBackup: parentWillBeDeleted
ParentWillBeDeleted(maybeParentId, backupIdCounter) ==
    maybeParentId # Undefined /\ maybeParentId >= backupIdCounter

\* applyFastStateBackup: the loop over the new AST nodes
RECURSIVE DeleteNewAsts(_, _, _)
DeleteNewAsts(cs, order, backupIdCounter) ==
    IF order = <<>> THEN cs
    ELSE LET nodeId == Head(order)
             maybeParentId == MapGetId(cs.nodeIdMapCollection.parentIdById, nodeId)
         IN DeleteNewAsts(
                CtxDeleteAst(cs, nodeId, ParentWillBeDeleted(maybeParentId, backupIdCounter)),
                Tail(order), backupIdCounter)

\* applyFastStateBackup: the loop over the new context nodes
RECURSIVE DeleteNewContexts(_, _)
DeleteNewContexts(cs, order) ==
    IF order = <<>> THEN cs
    ELSE DeleteNewContexts(CtxDeleteContext(cs, Head(order)), Tail(order))

\* applyFastStateBackup: the context state it leaves
RestoredContextState(cs, backup) ==
    LET backupIdCounter == backup.contextStateIdCounter
        reset == [cs EXCEPT !.idCounter = backupIdCounter]
        coll == cs.nodeIdMapCollection
        afterAsts == DeleteNewAsts(reset, AstDeleteOrder(coll, backupIdCounter), backupIdCounter)
    IN DeleteNewContexts(afterAsts, ContextDeleteOrder(coll, backupIdCounter))

\* a restore that forgets to rebind the current context node
RestoredContextNodeUnbound(backup) == Undefined

\* applyFastStateBackup: the current context node it rebinds
RestoredContextNode(backup) ==
    IF Truthy(backup.maybeContextNodeId) THEN backup.maybeContextNodeId ELSE Undefined

\* a restore that resets the token index to the start of the document
RestoredTokenIndexZero(backup) == 0

\* applyFastStateBackup: the token index it resets
RestoredTokenIndex(backup) == backup.tokenIndex

\* ------------------------------------------------------------------------
\* IParserStateUtils: contexts and metadata
\* ------------------------------------------------------------------------
\* assertContextNodeMetadata: the inclusive index of the last token read
TokenIndexEnd(index) == index - 1

\* assertContextNodeMetadata: do its assertions pass
CanAssertContextNodeMetadata(tokens, index, coll, maybeContextNode) ==
    /\ maybeContextNode # Undefined
    /\ coll.contextNodeById[maybeContextNode].maybeTokenStart # UndefinedToken
    /\ TokenAt(tokens, TokenIndexEnd(index)) # UndefinedToken

\* metadata whose positionEnd is taken from the first token of the context
AssertContextNodeMetadataEndOfStart(tokens, index, coll, maybeContextNode) ==
    LET currentContextNode == coll.contextNodeById[maybeContextNode]
        tokenStart == currentContextNode.maybeTokenStart
        tokenIndexEnd == TokenIndexEnd(index)
    IN [id |-> currentContextNode.id,
        maybeAttributeIndex |-> currentContextNode.maybeAttributeIndex,
        tokenRange |-> [tokenIndexStart |-> currentContextNode.tokenIndexStart,
                        tokenIndexEnd |-> tokenIndexEnd,
                        positionStart |-> tokenStart.positionStart,
                        positionEnd |-> tokenStart.positionEnd]]

\* assertContextNodeMetadata
AssertContextNodeMetadata(tokens, index, coll, maybeContextNode) ==
    LET currentContextNode == coll.contextNodeById[maybeContextNode]
        tokenStart == currentContextNode.maybeTokenStart
        tokenIndexEnd == TokenIndexEnd(index)
        maybeTokenEnd == TokenAt(tokens, tokenIndexEnd)
    IN [id |-> currentContextNode.id,
        maybeAttributeIndex |-> currentContextNode.maybeAttributeIndex,
        tokenRange |-> [tokenIndexStart |-> currentContextNode.tokenIndexStart,
                        tokenIndexEnd |-> tokenIndexEnd,
                        positionStart |-> tokenStart.positionStart,
                        positionEnd |-> maybeTokenEnd.positionEnd]]

\* the AST node a production builds from the metadata of its context
AstNodeOf(nodeKind, metadata) ==
    [id |-> metadata.id, kind |-> nodeKind,
     maybeAttributeIndex |-> metadata.maybeAttributeIndex,
     tokenRange |-> metadata.tokenRange]

\* incrementAttributeCounter
IncrementedContextState(cs, nodeId) ==
    [cs EXCEPT !.nodeIdMapCollection.contextNodeById[nodeId].attributeCounter = @ + 1]

\* deleteContext: the node it deletes
DeleteContextTarget(maybeNodeId, maybeContextNode) ==
    IF maybeNodeId = Undefined THEN maybeContextNode ELSE maybeNodeId

\* ------------------------------------------------------------------------
\* The parse session: state after newState, one action per operation
\* ------------------------------------------------------------------------
NodeKinds == {"LetExpression"}

NoBackup ==
    [tokenIndex |-> Undefined, contextStateIdCounter |-> Undefined,
     maybeContextNodeId |-> Undefined]

\* the state a backup was taken in (history only)
NoSnap ==
    [tokenIndex |-> Undefined, idCounter |-> Undefined,
     maybeCurrentContextNode |-> Undefined,
     astNodeById |-> EmptyMap, contextNodeById |-> EmptyMap]

\* what the last operation was and what it acted on (history only)
NoOp ==
    [op |-> "newState", nodeId |-> Undefined, before |-> Undefined,
     entry |-> Undefined, backup |-> NoBackup,
     deletedAst |-> <<>>, deletedContext |-> <<>>, entries |-> {},
     tokenIndexBefore |-> Undefined, mintedAgain |-> FALSE, snap |-> NoSnap]

NoInspection == [phase |-> "none"]

Coll == contextState.nodeIdMapCollection

\* ids at or below this one were minted before the innermost pending backup:
\* a speculative read leaves those nodes alone
ProtectedIdCounter ==
    IF backups = <<>> THEN 0 ELSE backups[Len(backups)].backup.contextStateIdCounter

\* id counters a session can stand at with an empty node-id map: 0 after
\* newState, k after k contexts were started and deleted again
PriorIdCounters == {0, 8}

\* newState, or a session whose earlier contexts were all deleted
ParserInit ==
    /\ lexerSnapshot \in {SnapshotOf(n) : n \in 0..MaxTokens}
    /\ tokenIndex = 0
    /\ maybeCurrentToken = TokenAt(lexerSnapshot, 0)
    /\ maybeCurrentTokenKind = KindOf(TokenAt(lexerSnapshot, 0))
    /\ priorIdCounter \in PriorIdCounters
    /\ contextState = [NewContextState EXCEPT !.idCounter = priorIdCounter]
    /\ maybeCurrentContextNode = Undefined
    /\ backups = <<>>
    /\ startedById = EmptyMap
    /\ idHighWater = priorIdCounter
    /\ lastOp = NoOp

\* the parser reads the current token inside a production
ReadToken ==
    /\ maybeCurrentContextNode # Undefined
    /\ tokenIndex < Len(lexerSnapshot)
    /\ tokenIndex' = tokenIndex + 1
    /\ maybeCurrentToken' = TokenAt(lexerSnapshot, tokenIndex + 1)
    /\ maybeCurrentTokenKind' = KindOf(TokenAt(lexerSnapshot, tokenIndex + 1))
    /\ lastOp' = [NoOp EXCEPT !.op = "readToken", !.before = maybeCurrentContextNode]
    /\ UNCHANGED <<lexerSnapshot, contextState, maybeCurrentContextNode, backups,
                   startedById, priorIdCounter, idHighWater, inspection>>

\* startContext
StartContext(nodeKind) ==
    /\ contextState.idCounter < priorIdCounter + MaxMint
    /\ MapHas(Coll.childIdsById, maybeCurrentContextNode) =>
            Len(Coll.childIdsById[maybeCurrentContextNode]) < MaxChildren
    \* the document production is the only one entered outside a context
    /\ maybeCurrentContextNode = Undefined => LiveIds(Coll) = {}
    /\ contextState' = CtxStartContext(contextState, nodeKind, tokenIndex,
                                       maybeCurrentToken, maybeCurrentContextNode)
    /\ maybeCurrentContextNode' = contextState'.idCounter
    /\ startedById' = MapSet(startedById, contextState'.idCounter,
                             [entry |-> maybeCurrentContextNode, tokenIndex |-> tokenIndex])
    /\ idHighWater' = IF contextState'.idCounter > idHighWater
                      THEN contextState'.idCounter ELSE idHighWater
    /\ lastOp' = [NoOp EXCEPT !.op = "startContext",
                              !.nodeId = contextState'.idCounter,
                              !.before = maybeCurrentContextNode,
                              !.mintedAgain = contextState'.idCounter <= idHighWater]
    /\ UNCHANGED <<lexerSnapshot, tokenIndex, maybeCurrentToken, maybeCurrentTokenKind,
                   backups, priorIdCounter, inspection>>

\* endContext, with the AST node built from assertContextNodeMetadata
EndContext ==
    /\ maybeCurrentContextNode # Undefined
    /\ maybeCurrentContextNode > ProtectedIdCounter
    /\ CanAssertContextNodeMetadata(lexerSnapshot, tokenIndex, Coll, maybeCurrentContextNode)
    /\ LET metadata == AssertContextNodeMetadata(lexerSnapshot, tokenIndex, Coll,
                                                 maybeCurrentContextNode)
           astNode == AstNodeOf(Coll.contextNodeById[maybeCurrentContextNode].kind, metadata)
       IN /\ contextState' = CtxEndContext(contextState, maybeCurrentContextNode, astNode)
          /\ maybeCurrentContextNode' = ParentContextOf(Coll, maybeCurrentContextNode)
    /\ lastOp' = [NoOp EXCEPT !.op = "endContext",
                              !.nodeId = maybeCurrentContextNode,
                              !.before = maybeCurrentContextNode,
                              !.entry = startedById[maybeCurrentContextNode].entry]
    /\ UNCHANGED <<lexerSnapshot, tokenIndex, maybeCurrentToken, maybeCurrentTokenKind,
                   backups, startedById, priorIdCounter, idHighWater, inspection>>

\* deleteContext, of a context that has accepted no child
DeleteContext(maybeNodeId) ==
    /\ maybeNodeId = Undefined => maybeCurrentContextNode # Undefined
    /\ LET nodeId == DeleteContextTarget(maybeNodeId, maybeCurrentContextNode)
       IN /\ MapHas(Coll.contextNodeById, nodeId)
          /\ ~MapHas(Coll.childIdsById, nodeId)
          /\ nodeId > ProtectedIdCounter
          /\ contextState' = CtxDeleteContext(contextState, nodeId)
          /\ maybeCurrentContextNode' = ParentContextOf(Coll, nodeId)
          /\ startedById' = MapDelete(startedById, nodeId)
          /\ lastOp' = [NoOp EXCEPT !.op = "deleteContext",
                                    !.nodeId = nodeId,
                                    !.before = maybeCurrentContextNode,
                                    !.entry = startedById[nodeId].entry]
    /\ UNCHANGED <<lexerSnapshot, tokenIndex, maybeCurrentToken, maybeCurrentTokenKind,
                   backups, priorIdCounter, idHighWater, inspection>>

\* incrementAttributeCounter
IncrementAttributeCounter ==
    /\ maybeCurrentContextNode # Undefined
    /\ maybeCurrentContextNode > ProtectedIdCounter
    /\ Coll.contextNodeById[maybeCurrentContextNode].attributeCounter < MaxAttr
    /\ contextState' = IncrementedContextState(contextState, maybeCurrentContextNode)
    /\ lastOp' = [NoOp EXCEPT !.op = "incrementAttributeCounter",
                              !.nodeId = maybeCurrentContextNode,
                              !.before = maybeCurrentContextNode]
    /\ UNCHANGED <<lexerSnapshot, tokenIndex, maybeCurrentToken, maybeCurrentTokenKind,
                   maybeCurrentContextNode, backups, startedById, priorIdCounter, idHighWater, inspection>>

\* fastStateBackup, taken right before a try/catch read block
TakeFastStateBackup ==
    /\ Len(backups) < MaxBackups
    /\ backups' = Append(backups,
            [backup |-> FastStateBackupOf(tokenIndex, contextState, maybeCurrentContextNode),
             snap |-> [tokenIndex |-> tokenIndex,
                       idCounter |-> contextState.idCounter,
                       maybeCurrentContextNode |-> maybeCurrentContextNode,
                       astNodeById |-> Coll.astNodeById,
                       contextNodeById |-> Coll.contextNodeById]])
    /\ lastOp' = [NoOp EXCEPT !.op = "fastStateBackup", !.before = maybeCurrentContextNode]
    /\ UNCHANGED <<lexerSnapshot, tokenIndex, maybeCurrentToken, maybeCurrentTokenKind,
                   contextState, maybeCurrentContextNode, startedById, priorIdCounter, idHighWater, inspection>>

\* the read block returned normally: its backup is dropped
DropFastStateBackup ==
    /\ backups # <<>>
    /\ backups' = SubSeq(backups, 1, Len(backups) - 1)
    /\ lastOp' = [NoOp EXCEPT !.op = "dropBackup", !.before = maybeCurrentContextNode]
    /\ UNCHANGED <<lexerSnapshot, tokenIndex, maybeCurrentToken, maybeCurrentTokenKind,
                   contextState, maybeCurrentContextNode, startedById, priorIdCounter, idHighWater, inspection>>

\* applyFastStateBackup, in the catch of the read block
ApplyFastStateBackup ==
    /\ backups # <<>>
    /\ LET top == backups[Len(backups)]
           backup == top.backup
           backupIdCounter == backup.contextStateIdCounter
           deletedAst == AstDeleteOrder(Coll, backupIdCounter)
           deletedContext == ContextDeleteOrder(Coll, backupIdCounter)
           deleted == SeqToSet(deletedAst) \cup SeqToSet(deletedContext)
       IN /\ tokenIndex' = RestoredTokenIndex(backup)
          /\ maybeCurrentToken' = TokenAt(lexerSnapshot, tokenIndex')
          /\ maybeCurrentTokenKind' = KindOf(maybeCurrentToken')
          /\ contextState' = RestoredContextState(contextState, backup)
          /\ maybeCurrentContextNode' = RestoredContextNode(backup)
          /\ startedById' = [id \in (DOMAIN startedById) \ deleted |->
                                    startedById[id]]
          /\ lastOp' = [NoOp EXCEPT
                !.op = "applyFastStateBackup",
                !.before = maybeCurrentContextNode,
                !.backup = backup,
                !.deletedAst = deletedAst,
                !.deletedContext = deletedContext,
                !.entries = {startedById[id].entry : id \in
                                {d \in deleted : startedById[d].entry \notin deleted}},
                !.tokenIndexBefore = tokenIndex,
                !.snap = top.snap]
    /\ backups' = SubSeq(backups, 1, Len(backups) - 1)
    /\ UNCHANGED <<lexerSnapshot, priorIdCounter, idHighWater, inspection>>

ParserNext ==
    \/ ReadToken
    \/ \E nodeKind \in NodeKinds : StartContext(nodeKind)
    \/ EndContext
    \/ \E maybeNodeId \in {Undefined} \cup DOMAIN Coll.contextNodeById :
          DeleteContext(maybeNodeId)
    \/ IncrementAttributeCounter
    \/ TakeFastStateBackup
    \/ DropFastStateBackup
    \/ ApplyFastStateBackup

Init == ParserInit /\ inspection = NoInspection

Next == ParserNext

Spec == Init /\ [][Next]_vars

TypeOK ==
    /\ tokenIndex \in 0..Len(lexerSnapshot)
    /\ contextState.idCounter \in 0..(priorIdCounter + MaxMint)

\* ------------------------------------------------------------------------
\* Properties of the parse session
\* ------------------------------------------------------------------------
Restored == lastOp.op = "applyFastStateBackup"

\* the entries of a map at ids up to idCounter
UpTo(m, idCounter) == [id \in {x \in DOMAIN m : x <= idCounter} |-> m[id]]

DeletedByRestore == SeqToSet(lastOp.deletedAst) \cup SeqToSet(lastOp.deletedContext)

\* C1: backup / restore round trip.  After applyFastStateBackup(S', B), with
\* B = fastStateBackup(S) and only contexts created after B touched in
\* between, tokenIndex, idCounter and the current context node are those of
\* S, and astNodeById and contextNodeById hold at ids <= B.contextStateIdCounter
\* exactly the entries they held in S.
BackupRestoreRoundTrip ==
    Restored =>
        /\ tokenIndex = lastOp.snap.tokenIndex
        /\ contextState.idCounter = lastOp.snap.idCounter
        /\ maybeCurrentContextNode = lastOp.snap.maybeCurrentContextNode
        /\ UpTo(Coll.astNodeById, lastOp.backup.contextStateIdCounter)
             = UpTo(lastOp.snap.astNodeById, lastOp.backup.contextStateIdCounter)
        /\ UpTo(Coll.contextNodeById, lastOp.backup.contextStateIdCounter)
             = UpTo(lastOp.snap.contextNodeById, lastOp.backup.contextStateIdCounter)

\* a restore that took back tokens and nodes, to a state that had nodes
RoundTripWitness ==
    /\ Restored
    /\ lastOp.tokenIndexBefore > tokenIndex
    /\ lastOp.deletedAst # <<>>
    /\ lastOp.deletedContext # <<>>
    /\ lastOp.snap.contextNodeById # EmptyMap
    /\ maybeCurrentContextNode # Undefined

\* C2: after applyFastStateBackup returns neither astNodeById nor
\* contextNodeById has a key greater than backup.contextStateIdCounter.
NoNewNodeSurvivesRestore ==
    Restored => \A id \in LiveIds(Coll) : id <= lastOp.backup.contextStateIdCounter

\* a restore that deleted an AST node and a context node
NewNodesDeletedWitness ==
    /\ Restored
    /\ lastOp.deletedAst # <<>>
    /\ lastOp.deletedContext # <<>>
    /\ LiveIds(Coll) # {}

\* C3: after applyFastStateBackup, childIdsById of every surviving node
\* (including the node whose id equals backup.contextStateIdCounter) holds no
\* id of a node the restore deleted.
NoDeletedChildLeftLinked ==
    Restored =>
        \A p \in LiveIds(Coll) :
            MapHas(Coll.childIdsById, p) =>
                SeqToSet(Coll.childIdsById[p]) \cap DeletedByRestore = {}

Descending(order) == \A i, j \in 1..Len(order) : i < j => order[i] > order[j]

\* C4: applyFastStateBackup deletes the new AST nodes, and likewise the new
\* context nodes, in descending numeric id order, whatever their magnitudes.
DeletesInDescendingIdOrder ==
    Restored => Descending(lastOp.deletedAst) /\ Descending(lastOp.deletedContext)

\* C5 as claimed: idCounter never decreases and an id, once minted, is never
\* minted again, applyFastStateBackup included.
IdCounterMonotonic ==
    [][/\ contextState'.idCounter >= contextState.idCounter
       /\ contextState'.idCounter > contextState.idCounter =>
              contextState'.idCounter > idHighWater]_vars

\* C5 as amended: applyFastStateBackup sets idCounter back to the backup's
\* contextStateIdCounter, never above its current value; every other
\* operation leaves it or raises it; every live node's id is at most
\* idCounter, so a newly minted id is never the id of a live node.
IdCounterMonotonicButForRestore ==
    /\ [](\A id \in LiveIds(Coll) : id <= contextState.idCounter)
    /\ [][IF lastOp'.op = "applyFastStateBackup"
          THEN /\ contextState'.idCounter = lastOp'.backup.contextStateIdCounter
               /\ contextState'.idCounter <= contextState.idCounter
          ELSE contextState'.idCounter >= contextState.idCounter]_vars

\* an id the restore had freed has been minted again
IdMintedAgainWitness ==
    /\ lastOp.op = "startContext"
    /\ lastOp.mintedAgain

\* C6: the key sets of astNodeById and contextNodeById are disjoint in every
\* reachable state, and endContext moves the id of the current context node
\* from contextNodeById to astNodeById.
AstAndContextKeysDisjoint ==
    /\ (DOMAIN Coll.astNodeById) \cap (DOMAIN Coll.contextNodeById) = {}
    /\ lastOp.op = "endContext" =>
          /\ MapHas(Coll.astNodeById, lastOp.nodeId)
          /\ ~MapHas(Coll.contextNodeById, lastOp.nodeId)
          /\ Coll.astNodeById[lastOp.nodeId].id = lastOp.nodeId

\* a context started at an id whose earlier AST node a restore deleted
DisjointKeysWitness ==
    /\ lastOp.op = "startContext"
    /\ lastOp.mintedAgain
    /\ Coll.astNodeById # EmptyMap

AttributeIndexOf(coll, id) ==
    IF MapHas(coll.astNodeById, id) THEN coll.astNodeById[id].maybeAttributeIndex
    ELSE coll.contextNodeById[id].maybeAttributeIndex

\* C8: for every node n of the node-id map the ids in childIdsById[n.id] are
\* keys of astNodeById or contextNodeById, have n.id as their parentIdById,
\* and stand in ascending order of maybeAttributeIndex.
ChildLinksWellFormed ==
    \A n \in LiveIds(Coll) :
        MapHas(Coll.childIdsById, n) =>
            LET childIds == Coll.childIdsById[n]
            IN /\ \A i \in 1..Len(childIds) :
                      /\ childIds[i] \in LiveIds(Coll)
                      /\ MapGetId(Coll.parentIdById, childIds[i]) = n
               /\ \A i, j \in 1..Len(childIds) :
                      (i < j /\ childIds[i] \in LiveIds(Coll) /\ childIds[j] \in LiveIds(Coll)) =>
                          AttributeIndexOf(Coll, childIds[i]) <= AttributeIndexOf(Coll, childIds[j])

\* the parse succeeded: the document production, entered at token 0, has
\* ended and assertNoMoreTokens passes
RootIds == {id \in LiveIds(Coll) : ~MapHas(Coll.parentIdById, id)}

ParseSucceeded ==
    /\ maybeCurrentContextNode = Undefined
    /\ tokenIndex = Len(lexerSnapshot)
    /\ \E id \in RootIds : MapHas(Coll.astNodeById, id) /\ startedById[id].tokenIndex = 0

RootRangeCoversTokens ==
    ParseSucceeded =>
        \A id \in RootIds :
            /\ Coll.astNodeById[id].tokenRange.tokenIndexStart = 0
            /\ Coll.astNodeById[id].tokenRange.tokenIndexEnd = Len(lexerSnapshot) - 1

RangePositionsAreTokenPositions ==
    \A id \in DOMAIN Coll.astNodeById :
        LET tokenRange == Coll.astNodeById[id].tokenRange
        IN /\ tokenRange.tokenIndexStart = startedById[id].tokenIndex
           /\ tokenRange.positionStart =
                 TokenAt(lexerSnapshot, tokenRange.tokenIndexStart).positionStart
           /\ tokenRange.positionEnd =
                 TokenAt(lexerSnapshot, tokenRange.tokenIndexEnd).positionEnd

\* C9 as claimed: after a successful parse the root's tokenRange is
\* [0, tokens.length - 1]; every node built through assertContextNodeMetadata
\* has tokenIndexStart <= tokenIndexEnd and the positions of those two tokens.
TokenRangeNeverEmpty ==
    /\ RootRangeCoversTokens
    /\ RangePositionsAreTokenPositions
    /\ \A id \in DOMAIN Coll.astNodeById :
          Coll.astNodeById[id].tokenRange.tokenIndexStart
              <= Coll.astNodeById[id].tokenRange.tokenIndexEnd

\* C9 as amended: a production that read no token gets
\* tokenIndexEnd = tokenIndexStart - 1, so tokenIndexStart <= tokenIndexEnd + 1.
TokenRangeOfMetadata ==
    /\ RootRangeCoversTokens
    /\ RangePositionsAreTokenPositions
    /\ \A id \in DOMAIN Coll.astNodeById :
          Coll.astNodeById[id].tokenRange.tokenIndexStart
              <= Coll.astNodeById[id].tokenRange.tokenIndexEnd + 1

\* a successful parse of two tokens with a child that read no token
TokenRangeWitness ==
    /\ ParseSucceeded
    /\ Len(lexerSnapshot) = 2
    /\ \E id \in DOMAIN Coll.astNodeById :
          /\ MapHas(Coll.parentIdById, id)
          /\ Coll.astNodeById[id].tokenRange.tokenIndexStart
                = Coll.astNodeById[id].tokenRange.tokenIndexEnd + 1

\* ------------------------------------------------------------------------
\* Position inspector: documents the scope visitors run over
\* ------------------------------------------------------------------------
\* the largest line number and line code unit a cursor position is drawn from
MaxLineNumber == 1
MaxLineCodeUnit == 16

Pos(lineNumber, lineCodeUnit) == [lineNumber |-> lineNumber, lineCodeUnit |-> lineCodeUnit]

UndefinedPosition == Pos(Undefined, Undefined)

Positions == {Pos(l, c) : l \in 0..MaxLineNumber, c \in 0..MaxLineCodeUnit}

\* a token of a document: where it starts and where it ends
Tok(lineNumber, codeUnitStart, codeUnitEnd) ==
    [positionStart |-> Pos(lineNumber, codeUnitStart),
     positionEnd |-> Pos(lineNumber, codeUnitEnd)]

\* `undefined` where a token of a document is expected
UndefinedTok == Tok(Undefined, Undefined, Undefined)

\* a node of a parsed document; its id is its index in the document's nodes
Node(xorKind, kind, parent, maybeAttributeIndex, tokenIndexStart, tokenIndexEnd, literal) ==
    [xorKind |-> xorKind, kind |-> kind, parent |-> parent,
     maybeAttributeIndex |-> maybeAttributeIndex,
     tokenIndexStart |-> tokenIndexStart, tokenIndexEnd |-> tokenIndexEnd,
     literal |-> literal]

\* Foo(a, b) parsed in full; tokens Foo ( a , b )
InvokeNodes ==
    << Node("Ast", "RecursivePrimaryExpression", Undefined, Undefined, 1, 6, ""),
       Node("Ast", "IdentifierExpression", 1, 0, 1, 1, ""),
       Node("Ast", "Identifier", 2, 1, 1, 1, "Foo"),
       Node("Ast", "ArrayWrapper", 1, 1, 2, 6, ""),
       Node("Ast", "InvokeExpression", 4, 0, 2, 6, ""),
       Node("Ast", "Constant", 5, 0, 2, 2, "("),
       Node("Ast", "ArrayWrapper", 5, 1, 3, 5, ""),
       Node("Ast", "Csv", 7, 0, 3, 4, ""),
       Node("Ast", "IdentifierExpression", 8, 0, 3, 3, ""),
       Node("Ast", "Identifier", 9, 1, 3, 3, "a"),
       Node("Ast", "Constant", 8, 1, 4, 4, ","),
       Node("Ast", "Csv", 7, 1, 5, 5, ""),
       Node("Ast", "IdentifierExpression", 12, 0, 5, 5, ""),
       Node("Ast", "Identifier", 13, 1, 5, 5, "b"),
       Node("Ast", "Constant", 5, 2, 6, 6, ")") >>

\* Foo(a, b) on one line, and with the second argument on the next line
InvokeTokensOneLine ==
    << Tok(0, 0, 3), Tok(0, 3, 4), Tok(0, 4, 5), Tok(0, 5, 6), Tok(0, 7, 8), Tok(0, 8, 9) >>

InvokeTokensTwoLines ==
    << Tok(0, 0, 3), Tok(0, 3, 4), Tok(0, 4, 5), Tok(0, 5, 6), Tok(1, 2, 3), Tok(1, 3, 4) >>

\* each @Foo(a, @  where the text ends: the parse failed and left the open
\* productions as context nodes; tokens each @ Foo ( a , @
PartialEachNodes ==
    << Node("Context", "EachExpression", Undefined, Undefined, 1, Undefined, ""),
       Node("Ast", "Constant", 1, 0, 1, 1, "each"),
       Node("Context", "RecursivePrimaryExpression", 1, 1, 2, Undefined, ""),
       Node("Ast", "IdentifierExpression", 3, 0, 2, 3, ""),
       Node("Ast", "Constant", 4, 0, 2, 2, "@"),
       Node("Ast", "Identifier", 4, 1, 3, 3, "Foo"),
       Node("Context", "ArrayWrapper", 3, 1, 4, Undefined, ""),
       Node("Context", "InvokeExpression", 7, 0, 4, Undefined, ""),
       Node("Ast", "Constant", 8, 0, 4, 4, "("),
       Node("Context", "ArrayWrapper", 8, 1, 5, Undefined, ""),
       Node("Ast", "Csv", 10, 0, 5, 6, ""),
       Node("Ast", "IdentifierExpression", 11, 0, 5, 5, ""),
       Node("Ast", "Identifier", 12, 1, 5, 5, "a"),
       Node("Ast", "Constant", 11, 1, 6, 6, ","),
       Node("Context", "Csv", 10, 1, 7, Undefined, ""),
       Node("Context", "IdentifierExpression", 15, 0, 7, Undefined, ""),
       Node("Ast", "Constant", 16, 0, 7, 7, "@") >>

PartialEachTokensOneLine ==
    << Tok(0, 0, 4), Tok(0, 5, 6), Tok(0, 6, 9), Tok(0, 9, 10), Tok(0, 10, 11),
       Tok(0, 11, 12), Tok(0, 13, 14) >>

PartialEachTokensTwoLines ==
    << Tok(0, 0, 4), Tok(0, 5, 6), Tok(0, 6, 9), Tok(0, 9, 10), Tok(1, 0, 1),
       Tok(1, 1, 2), Tok(1, 3, 4) >>

\* let x=1,y=2 in x  parsed in full; tokens let x = 1 , y = 2 in x
LetNodes ==
    << Node("Ast", "LetExpression", Undefined, Undefined, 1, 10, ""),
       Node("Ast", "Constant", 1, 0, 1, 1, "let"),
       Node("Ast", "ArrayWrapper", 1, 1, 2, 8, ""),
       Node("Ast", "Csv", 3, 0, 2, 5, ""),
       Node("Ast", "IdentifierPairedExpression", 4, 0, 2, 4, ""),
       Node("Ast", "Identifier", 5, 0, 2, 2, "x"),
       Node("Ast", "Constant", 5, 1, 3, 3, "="),
       Node("Ast", "LiteralExpression", 5, 2, 4, 4, "1"),
       Node("Ast", "Constant", 4, 1, 5, 5, ","),
       Node("Ast", "Csv", 3, 1, 6, 8, ""),
       Node("Ast", "IdentifierPairedExpression", 10, 0, 6, 8, ""),
       Node("Ast", "Identifier", 11, 0, 6, 6, "y"),
       Node("Ast", "Constant", 11, 1, 7, 7, "="),
       Node("Ast", "LiteralExpression", 11, 2, 8, 8, "2"),
       Node("Ast", "Constant", 1, 2, 9, 9, "in"),
       Node("Ast", "IdentifierExpression", 1, 3, 10, 10, ""),
       Node("Ast", "Identifier", 16, 1, 10, 10, "x") >>

LetTokens ==
    << Tok(0, 0, 3), Tok(0, 4, 5), Tok(0, 5, 6), Tok(0, 6, 7), Tok(0, 7, 8), Tok(0, 8, 9),
       Tok(0, 9, 10), Tok(0, 10, 11), Tok(0, 12, 14), Tok(0, 15, 16) >>

\* section;a=1;b=2;  parsed in full; tokens section ; a = 1 ; b = 2 ;
SectionNodes ==
    << Node("Ast", "Section", Undefined, Undefined, 1, 10, ""),
       Node("Ast", "Constant", 1, 1, 1, 1, "section"),
       Node("Ast", "Constant", 1, 3, 2, 2, ";"),
       Node("Ast", "ArrayWrapper", 1, 4, 3, 10, ""),
       Node("Ast", "SectionMember", 4, 0, 3, 6, ""),
       Node("Ast", "IdentifierPairedExpression", 5, 2, 3, 5, ""),
       Node("Ast", "Identifier", 6, 0, 3, 3, "a"),
       Node("Ast", "Constant", 6, 1, 4, 4, "="),
       Node("Ast", "LiteralExpression", 6, 2, 5, 5, "1"),
       Node("Ast", "Constant", 5, 3, 6, 6, ";"),
       Node("Ast", "SectionMember", 4, 1, 7, 10, ""),
       Node("Ast", "IdentifierPairedExpression", 11, 2, 7, 9, ""),
       Node("Ast", "Identifier", 12, 0, 7, 7, "b"),
       Node("Ast", "Constant", 12, 1, 8, 8, "="),
       Node("Ast", "LiteralExpression", 12, 2, 9, 9, "2"),
       Node("Ast", "Constant", 11, 3, 10, 10, ";") >>

SectionTokens ==
    << Tok(0, 0, 7), Tok(0, 7, 8), Tok(0, 8, 9), Tok(0, 9, 10), Tok(0, 10, 11),
       Tok(0, 11, 12), Tok(1, 0, 1), Tok(1, 1, 2), Tok(1, 2, 3), Tok(1, 3, 4) >>

\* (x)=>(x,y)=>1  parsed in full; tokens ( x ) => ( x , y ) => 1
FunctionNodes ==
    << Node("Ast", "FunctionExpression", Undefined, Undefined, 1, 11, ""),
       Node("Ast", "ParameterList", 1, 0, 1, 3, ""),
       Node("Ast", "Constant", 2, 0, 1, 1, "("),
       Node("Ast", "ArrayWrapper", 2, 1, 2, 2, ""),
       Node("Ast", "Csv", 4, 0, 2, 2, ""),
       Node("Ast", "Parameter", 5, 0, 2, 2, ""),
       Node("Ast", "Identifier", 6, 1, 2, 2, "x"),
       Node("Ast", "Constant", 2, 2, 3, 3, ")"),
       Node("Ast", "Constant", 1, 2, 4, 4, "=>"),
       Node("Ast", "FunctionExpression", 1, 3, 5, 11, ""),
       Node("Ast", "ParameterList", 10, 0, 5, 9, ""),
       Node("Ast", "Constant", 11, 0, 5, 5, "("),
       Node("Ast", "ArrayWrapper", 11, 1, 6, 8, ""),
       Node("Ast", "Csv", 13, 0, 6, 7, ""),
       Node("Ast", "Parameter", 14, 0, 6, 6, ""),
       Node("Ast", "Identifier", 15, 1, 6, 6, "x"),
       Node("Ast", "Constant", 14, 1, 7, 7, ","),
       Node("Ast", "Csv", 13, 1, 8, 8, ""),
       Node("Ast", "Parameter", 18, 0, 8, 8, ""),
       Node("Ast", "Identifier", 19, 1, 8, 8, "y"),
       Node("Ast", "Constant", 11, 2, 9, 9, ")"),
       Node("Ast", "Constant", 10, 2, 10, 10, "=>"),
       Node("Ast", "LiteralExpression", 10, 3, 11, 11, "1") >>

FunctionTokens ==
    << Tok(0, 0, 1), Tok(0, 1, 2), Tok(0, 2, 3), Tok(0, 3, 5), Tok(0, 5, 6), Tok(0, 6, 7),
       Tok(0, 7, 8), Tok(0, 8, 9), Tok(0, 9, 10), Tok(0, 10, 12), Tok(0, 12, 13) >>

\* {[a=1,b=2]}  parsed in full; tokens { [ a = 1 , b = 2 ] }
ListRecordNodes ==
    << Node("Ast", "ListExpression", Undefined, Undefined, 1, 11, ""),
       Node("Ast", "Constant", 1, 0, 1, 1, "{"),
       Node("Ast", "ArrayWrapper", 1, 1, 2, 10, ""),
       Node("Ast", "Csv", 3, 0, 2, 10, ""),
       Node("Ast", "RecordExpression", 4, 0, 2, 10, ""),
       Node("Ast", "Constant", 5, 0, 2, 2, "["),
       Node("Ast", "ArrayWrapper", 5, 1, 3, 9, ""),
       Node("Ast", "Csv", 7, 0, 3, 6, ""),
       Node("Ast", "GeneralizedIdentifierPairedExpression", 8, 0, 3, 5, ""),
       Node("Ast", "GeneralizedIdentifier", 9, 0, 3, 3, "a"),
       Node("Ast", "Constant", 9, 1, 4, 4, "="),
       Node("Ast", "LiteralExpression", 9, 2, 5, 5, "1"),
       Node("Ast", "Constant", 8, 1, 6, 6, ","),
       Node("Ast", "Csv", 7, 1, 7, 9, ""),
       Node("Ast", "GeneralizedIdentifierPairedExpression", 14, 0, 7, 9, ""),
       Node("Ast", "GeneralizedIdentifier", 15, 0, 7, 7, "b"),
       Node("Ast", "Constant", 15, 1, 8, 8, "="),
       Node("Ast", "LiteralExpression", 15, 2, 9, 9, "2"),
       Node("Ast", "Constant", 5, 2, 10, 10, "]"),
       Node("Ast", "Constant", 1, 2, 11, 11, "}") >>

ListRecordTokens ==
    << Tok(0, 0, 1), Tok(0, 1, 2), Tok(0, 2, 3), Tok(0, 3, 4), Tok(0, 4, 5), Tok(0, 5, 6),
       Tok(0, 6, 7), Tok(0, 7, 8), Tok(0, 8, 9), Tok(0, 9, 10), Tok(0, 10, 11) >>

\* the same with  b=2]}  on the second line
ListRecordTokensTwoLines ==
    << Tok(0, 0, 1), Tok(0, 1, 2), Tok(0, 2, 3), Tok(0, 3, 4), Tok(0, 4, 5), Tok(0, 5, 6),
       Tok(1, 0, 1), Tok(1, 1, 2), Tok(1, 2, 3), Tok(1, 3, 4), Tok(1, 4, 5) >>

\* Foo(a,x+y) with y and the closing parenthesis on the second line, parsed
\* in full; tokens Foo ( a , x + y )
InvokeSplitArgumentNodes ==
    << Node("Ast", "RecursivePrimaryExpression", Undefined, Undefined, 1, 8, ""),
       Node("Ast", "IdentifierExpression", 1, 0, 1, 1, ""),
       Node("Ast", "Identifier", 2, 1, 1, 1, "Foo"),
       Node("Ast", "ArrayWrapper", 1, 1, 2, 8, ""),
       Node("Ast", "InvokeExpression", 4, 0, 2, 8, ""),
       Node("Ast", "Constant", 5, 0, 2, 2, "("),
       Node("Ast", "ArrayWrapper", 5, 1, 3, 7, ""),
       Node("Ast", "Csv", 7, 0, 3, 4, ""),
       Node("Ast", "IdentifierExpression", 8, 0, 3, 3, ""),
       Node("Ast", "Identifier", 9, 1, 3, 3, "a"),
       Node("Ast", "Constant", 8, 1, 4, 4, ","),
       Node("Ast", "Csv", 7, 1, 5, 7, ""),
       Node("Ast", "ArithmeticExpression", 12, 0, 5, 7, ""),
       Node("Ast", "IdentifierExpression", 13, 0, 5, 5, ""),
       Node("Ast", "Identifier", 14, 1, 5, 5, "x"),
       Node("Ast", "Constant", 13, 1, 6, 6, "+"),
       Node("Ast", "IdentifierExpression", 13, 2, 7, 7, ""),
       Node("Ast", "Identifier", 17, 1, 7, 7, "y"),
       Node("Ast", "Constant", 5, 2, 8, 8, ")") >>

InvokeSplitArgumentTokens ==
    << Tok(0, 0, 3), Tok(0, 3, 4), Tok(0, 4, 5), Tok(0, 5, 6), Tok(0, 6, 7), Tok(0, 7, 8),
       Tok(1, 0, 1), Tok(1, 1, 2) >>

\* @  where the text ends, and  @ 1 : the identifier expression has read its
\* '@' and the context of its identifier is open, started at no token (the
\* text ended) or at the token 1 it then failed to read
PartialIdentifierNodes ==
    << Node("Context", "IdentifierExpression", Undefined, Undefined, 1, Undefined, ""),
       Node("Ast", "Constant", 1, 0, 1, 1, "@"),
       Node("Context", "Identifier", 1, 1, Undefined, Undefined, "") >>

PartialIdentifierOnLiteralNodes ==
    << Node("Context", "IdentifierExpression", Undefined, Undefined, 1, Undefined, ""),
       Node("Ast", "Constant", 1, 0, 1, 1, "@"),
       Node("Context", "Identifier", 1, 1, 2, Undefined, "") >>

PartialIdentifierTokens == << Tok(0, 0, 1) >>

PartialIdentifierOnLiteralTokens == << Tok(0, 0, 1), Tok(0, 2, 3) >>

DocumentNames ==
    {"invoke", "invokeTwoLines", "partialEach", "partialEachTwoLines",
     "let", "section", "function", "listRecord", "invokeSplitArgument",
     "partialIdentifier", "partialIdentifierOnLiteral", "listRecordTwoLines"}

DocumentOf(name) ==
    CASE name = "invoke" -> [nodes |-> InvokeNodes, tokens |-> InvokeTokensOneLine]
      [] name = "invokeTwoLines" -> [nodes |-> InvokeNodes, tokens |-> InvokeTokensTwoLines]
      [] name = "partialEach" ->
            [nodes |-> PartialEachNodes, tokens |-> PartialEachTokensOneLine]
      [] name = "partialEachTwoLines" ->
            [nodes |-> PartialEachNodes, tokens |-> PartialEachTokensTwoLines]
      [] name = "let" -> [nodes |-> LetNodes, tokens |-> LetTokens]
      [] name = "section" -> [nodes |-> SectionNodes, tokens |-> SectionTokens]
      [] name = "function" -> [nodes |-> FunctionNodes, tokens |-> FunctionTokens]
      [] name = "listRecord" -> [nodes |-> ListRecordNodes, tokens |-> ListRecordTokens]
      [] name = "listRecordTwoLines" ->
            [nodes |-> ListRecordNodes, tokens |-> ListRecordTokensTwoLines]
      [] name = "invokeSplitArgument" ->
            [nodes |-> InvokeSplitArgumentNodes, tokens |-> InvokeSplitArgumentTokens]
      [] name = "partialIdentifier" ->
            [nodes |-> PartialIdentifierNodes, tokens |-> PartialIdentifierTokens]
      [] name = "partialIdentifierOnLiteral" ->
            [nodes |-> PartialIdentifierOnLiteralNodes,
             tokens |-> PartialIdentifierOnLiteralTokens]

\* the XOR node of id in a document: the AST node with its tokenRange, or the
\* context node with its maybeTokenStart
XorNodeOf(doc, id) ==
    LET n == doc.nodes[id]
    IN IF n.xorKind = "Ast"
       THEN [kind |-> "Ast",
             node |-> [id |-> id, kind |-> n.kind,
                       maybeAttributeIndex |-> n.maybeAttributeIndex,
                       literal |-> n.literal,
                       tokenRange |->
                          [positionStart |-> doc.tokens[n.tokenIndexStart].positionStart,
                           positionEnd |-> doc.tokens[n.tokenIndexEnd].positionEnd]]]
       ELSE [kind |-> "Context",
             node |-> [id |-> id, kind |-> n.kind,
                       maybeAttributeIndex |-> n.maybeAttributeIndex,
                       maybeTokenStart |-> IF n.tokenIndexStart = Undefined THEN UndefinedTok
                                           ELSE doc.tokens[n.tokenIndexStart]]]

UndefinedXor == [kind |-> "undefined"]

\* the node-id map collection of a document
CollectionOf(doc) ==
    LET ids == 1..Len(doc.nodes)
        ChildrenOf(p) == {c \in ids : doc.nodes[c].parent = p}
        RECURSIVE Ascending(_)
        Ascending(S) ==
            IF S = {} THEN <<>>
            ELSE LET least == CHOOSE x \in S : \A y \in S : x <= y
                 IN <<least>> \o Ascending(S \ {least})
    IN [astNodeById |->
            [id \in {i \in ids : doc.nodes[i].xorKind = "Ast"} |-> XorNodeOf(doc, id).node],
        contextNodeById |->
            [id \in {i \in ids : doc.nodes[i].xorKind = "Context"} |-> XorNodeOf(doc, id).node],
        parentIdById |->
            [id \in {i \in ids : doc.nodes[i].parent # Undefined} |-> doc.nodes[id].parent],
        childIdsById |->
            [id \in {i \in ids : ChildrenOf(i) # {}} |-> Ascending(ChildrenOf(id))]]

\* leafNodeIds: the AST nodes without syntactic children
LeafNodeIdsOf(coll) == {id \in DOMAIN coll.astNodeById : ~MapHas(coll.childIdsById, id)}

\* ------------------------------------------------------------------------
\* Node-id map queries the visitors use (NodeIdMap; described by the
\* specification)
\* ------------------------------------------------------------------------
\* maybeXorNode
MaybeXorNode(coll, id) ==
    IF MapHas(coll.astNodeById, id) THEN [kind |-> "Ast", node |-> coll.astNodeById[id]]
    ELSE IF MapHas(coll.contextNodeById, id)
         THEN [kind |-> "Context", node |-> coll.contextNodeById[id]]
         ELSE UndefinedXor

\* expectXorChildren: the children of a node, in childIdsById order
XorChildren(coll, parentId) ==
    IF MapHas(coll.childIdsById, parentId)
    THEN [i \in 1..Len(coll.childIdsById[parentId]) |->
             MaybeXorNode(coll, coll.childIdsById[parentId][i])]
    ELSE <<>>

\* maybeChildByAttributeIndex: the child whose maybeAttributeIndex is
\* attributeIndex, if its kind is allowed (every kind is when allowedKinds is
\* empty)
MaybeChildByAttributeIndex(coll, parentId, attributeIndex, allowedKinds) ==
    LET children == XorChildren(coll, parentId)
        hits == {i \in 1..Len(children) :
                    children[i].node.maybeAttributeIndex = attributeIndex}
    IN IF hits = {} THEN UndefinedXor
       ELSE LET child == children[CHOOSE i \in hits : \A j \in hits : i <= j]
            IN IF allowedKinds = {} \/ child.node.kind \in allowedKinds
               THEN child ELSE UndefinedXor

\* the closest leaf by position: the rightmost leaf whose positionEnd is at or
\* before the position, else the lexically first leaf
PosLess(a, b) ==
    \/ a.lineNumber < b.lineNumber
    \/ a.lineNumber = b.lineNumber /\ a.lineCodeUnit < b.lineCodeUnit

PosLeq(a, b) == a = b \/ PosLess(a, b)

ClosestLeafId(coll, position) ==
    LET leaves == LeafNodeIdsOf(coll)
        EndOf(id) == coll.astNodeById[id].tokenRange.positionEnd
        StartOf(id) == coll.astNodeById[id].tokenRange.positionStart
        before == {id \in leaves : PosLeq(EndOf(id), position)}
    IN IF before # {}
       THEN CHOOSE id \in before : \A other \in before : PosLeq(EndOf(other), EndOf(id))
       ELSE CHOOSE id \in leaves : \A other \in leaves : PosLeq(StartOf(id), StartOf(other))

\* the ids from a node up to the root
RECURSIVE AncestryIds(_, _)
AncestryIds(coll, id) ==
    IF MapHas(coll.parentIdById, id)
    THEN <<id>> \o AncestryIds(coll, coll.parentIdById[id])
    ELSE <<id>>

\* ------------------------------------------------------------------------
\* visitNode.ts: position helpers and the scope map
\* ------------------------------------------------------------------------
IsTokenPositionOnPosition(tokenPosition, position) ==
    /\ tokenPosition.lineNumber = position.lineNumber
    /\ tokenPosition.lineCodeUnit = position.lineCodeUnit

IsTokenPositionBeforePostion(tokenPosition, position) ==
    \/ tokenPosition.lineNumber < position.lineNumber
    \/ /\ tokenPosition.lineNumber = position.lineNumber
       /\ tokenPosition.lineCodeUnit < position.lineCodeUnit

IsTokenPositionOnOrBeforeBeforePostion(tokenPosition, position) ==
    \/ IsTokenPositionOnPosition(tokenPosition, position)
    \/ IsTokenPositionBeforePostion(tokenPosition, position)

IsPositionOnTokenRange(position, tokenRange) ==
    LET tokenRangeStart == tokenRange.positionStart
        tokenRangeEnd == tokenRange.positionEnd
    IN IF \/ tokenRangeStart.lineNumber < position.lineNumber
          \/ /\ tokenRangeStart.lineNumber = position.lineNumber
             /\ tokenRangeStart.lineCodeUnit > position.lineCodeUnit
       THEN FALSE
       ELSE IF \/ tokenRangeEnd.lineNumber > position.lineNumber
               \/ /\ tokenRangeEnd.lineNumber = position.lineNumber
                  /\ tokenRangeEnd.lineCodeUnit < position.lineCodeUnit
            THEN FALSE
            ELSE TRUE

IsPositionOnXorNode(position, xorNode) ==
    IF xorNode.kind = "Ast" THEN IsPositionOnTokenRange(position, xorNode.node.tokenRange)
    ELSE TRUE

\* the scope map keeps its keys in insertion order
ScopeHas(scope, key) == \E i \in 1..Len(scope) : scope[i].key = key

ScopeGet(scope, key) == scope[CHOOSE i \in 1..Len(scope) : scope[i].key = key].xorNode

ScopeKeys(scope) == {scope[i].key : i \in 1..Len(scope)}

\* a scope map whose last writer wins
AddToScopeOverwriting(st, key, xorNode) ==
    IF ScopeHas(st.scope, key)
    THEN [st EXCEPT !.scope = [i \in 1..Len(st.scope) |->
                                  IF st.scope[i].key = key
                                  THEN [key |-> key, xorNode |-> xorNode] ELSE st.scope[i]]]
    ELSE [st EXCEPT !.scope = Append(@, [key |-> key, xorNode |-> xorNode])]

\* addToScopeIfNew (addAstToScopeIfNew and addContextToScopeIfNew wrap the
\* node into its XOR node first)
AddToScopeIfNew(st, key, xorNode) ==
    IF ScopeHas(st.scope, key) THEN st
    ELSE [st EXCEPT !.scope = Append(@, [key |-> key, xorNode |-> xorNode])]

\* a visitor threw: the inspection ends in an error
Thrown(st) == [st EXCEPT !.phase = "error"]

\* maybePositionStart / maybePositionEnd of a contextual node
MaybePositionStartOf(xorNode) ==
    IF xorNode.kind = "Ast" THEN xorNode.node.tokenRange.positionStart
    ELSE IF xorNode.node.maybeTokenStart # UndefinedTok
         THEN xorNode.node.maybeTokenStart.positionStart
         ELSE UndefinedPosition

MaybePositionEndOf(xorNode) ==
    IF xorNode.kind = "Ast" THEN xorNode.node.tokenRange.positionEnd
    ELSE UndefinedPosition

\* nodesOnCsvFromCsvArray: the node of each Csv, up to the first Csv
\* without one
RECURSIVE NodesOnCsv(_, _)
NodesOnCsv(coll, csvXorNodes) ==
    IF csvXorNodes = <<>> THEN <<>>
    ELSE LET maybeCsvNode ==
                MaybeChildByAttributeIndex(coll, Head(csvXorNodes).node.id, 0, {})
         IN IF maybeCsvNode = UndefinedXor THEN <<>>
            ELSE <<maybeCsvNode>> \o NodesOnCsv(coll, Tail(csvXorNodes))

NodesOnCsvFromCsvArray(coll, csvArrayXorNode) ==
    NodesOnCsv(coll, XorChildren(coll, csvArrayXorNode.node.id))

\* ------------------------------------------------------------------------
\* visitNode.ts: the scope visitors
\* ------------------------------------------------------------------------
\* .literal of a node cast to an AST constant or identifier
LiteralOf(xorNode) == IF xorNode.kind = "Ast" THEN xorNode.node.literal ELSE "undefined"

\* isParentOfNodeKind
IsParentOfNodeKind(coll, childId, parentNodeKind) ==
    IF ~MapHas(coll.parentIdById, childId) THEN FALSE
    ELSE LET maybeParentNode == MaybeXorNode(coll, coll.parentIdById[childId])
         IN IF maybeParentNode = UndefinedXor THEN FALSE
            ELSE maybeParentNode.node.kind = parentNodeKind

\* inspectEachExpression
InspectEachExpression(st, eachExprXorNode) ==
    LET added == AddToScopeIfNew(st, "_", eachExprXorNode)
    IN [added EXCEPT !.nodes = Append(@,
            [kind |-> "EachExpression",
             maybePositionStart |-> MaybePositionStartOf(eachExprXorNode),
             maybePositionEnd |-> MaybePositionEndOf(eachExprXorNode)])]

\* inspectIdentifier
InspectIdentifier(st, coll, identifierXorNode) ==
    IF identifierXorNode.kind # "Ast" THEN st
    ELSE IF identifierXorNode.node.kind # "Identifier" THEN Thrown(st)
    ELSE IF IsParentOfNodeKind(coll, identifierXorNode.node.id, "IdentifierExpression")
         THEN st
    ELSE IF IsTokenPositionOnOrBeforeBeforePostion(
                identifierXorNode.node.tokenRange.positionEnd, st.position)
         THEN AddToScopeIfNew(st, identifierXorNode.node.literal, identifierXorNode)
         ELSE st

\* inspectIdentifierExpression
InspectIdentifierExpression(st, coll, identifierExprXorNode) ==
    LET id == identifierExprXorNode.node.id
        maybeInclusiveConstant == MaybeChildByAttributeIndex(coll, id, 0, {"Constant"})
        maybeIdentifier == MaybeChildByAttributeIndex(coll, id, 1, {"Identifier"})
        inclusive == IF maybeInclusiveConstant # UndefinedXor
                     THEN LiteralOf(maybeInclusiveConstant) ELSE ""
    IN IF identifierExprXorNode.kind = "Ast"
       THEN IF identifierExprXorNode.node.kind # "IdentifierExpression" THEN Thrown(st)
            ELSE AddToScopeIfNew(st, inclusive \o LiteralOf(maybeIdentifier),
                                 identifierExprXorNode)
       ELSE LET key == inclusive \o
                       (IF maybeIdentifier # UndefinedXor
                        THEN LiteralOf(maybeIdentifier) ELSE "")
            IN IF key # "" THEN AddToScopeIfNew(st, key, identifierExprXorNode) ELSE st

\* inspectInvokeExpression: the loop over the arguments; it leaves the scope
\* map and the index of the last argument the position is on
RECURSIVE InspectArguments(_, _, _, _, _)
InspectArguments(st, coll, argXorNodes, index, maybePositionArgumentIndex) ==
    IF index >= Len(argXorNodes)
    THEN [st |-> st, maybePositionArgumentIndex |-> maybePositionArgumentIndex]
    ELSE LET argXorNode == argXorNodes[index + 1]
             inspected == IF argXorNode.node.kind = "IdentifierExpression"
                          THEN InspectIdentifierExpression(st, coll, argXorNode)
                          ELSE st
         IN InspectArguments(inspected, coll, argXorNodes, index + 1,
                             IF IsPositionOnXorNode(st.position, argXorNode)
                             THEN index ELSE maybePositionArgumentIndex)

\* inspectInvokeExpression: the name of the invoked expression
NoName == [defined |-> FALSE, name |-> "", thrown |-> FALSE]

InvokeName(coll, invokeExprXorNode) ==
    IF invokeExprXorNode.node.maybeAttributeIndex # 0 THEN NoName
    ELSE LET recursiveArrayXorNode ==
                MaybeXorNode(coll, MapGetId(coll.parentIdById, invokeExprXorNode.node.id))
         IN IF recursiveArrayXorNode = UndefinedXor THEN [NoName EXCEPT !.thrown = TRUE]
            ELSE LET recursiveExprXorNode ==
                        MaybeXorNode(coll,
                            MapGetId(coll.parentIdById, recursiveArrayXorNode.node.id))
                 IN IF recursiveExprXorNode = UndefinedXor
                    THEN [NoName EXCEPT !.thrown = TRUE]
                    ELSE LET headXorNode ==
                                MaybeChildByAttributeIndex(coll, recursiveExprXorNode.node.id,
                                                           0, {})
                         IN IF headXorNode = UndefinedXor
                            THEN [NoName EXCEPT !.thrown = TRUE]
                            ELSE IF headXorNode.node.kind # "IdentifierExpression"
                                 THEN NoName
                            ELSE IF headXorNode.kind # "Ast"
                                 THEN [NoName EXCEPT !.thrown = TRUE]
                            ELSE LET maybeInclusiveConstant ==
                                        MaybeChildByAttributeIndex(coll, headXorNode.node.id,
                                                                   0, {"Constant"})
                                     identifier ==
                                        MaybeChildByAttributeIndex(coll, headXorNode.node.id,
                                                                   1, {"Identifier"})
                                 IN [defined |-> TRUE,
                                     name |-> IF maybeInclusiveConstant = UndefinedXor
                                              THEN LiteralOf(identifier)
                                              ELSE LiteralOf(maybeInclusiveConstant)
                                                     \o LiteralOf(identifier),
                                     thrown |-> FALSE]

NoArguments == [defined |-> FALSE, numArguments |-> 0, positionArgumentIndex |-> 0]

\* inspectInvokeExpression
InspectInvokeExpression(st, coll, invokeExprXorNode) ==
    IF invokeExprXorNode.node.kind # "InvokeExpression" THEN Thrown(st)
    ELSE LET closeWrapperConstant ==
                MaybeChildByAttributeIndex(coll, invokeExprXorNode.node.id, 2, {})
             maybeName == InvokeName(coll, invokeExprXorNode)
             maybeCsvArrayXorNode ==
                MaybeChildByAttributeIndex(coll, invokeExprXorNode.node.id, 1, {"ArrayWrapper"})
             argXorNodes == NodesOnCsvFromCsvArray(coll, maybeCsvArrayXorNode)
             inspected == InspectArguments(st, coll, argXorNodes, 0, Undefined)
             InvokeNode(scoped, maybeArguments) ==
                [scoped EXCEPT !.nodes = Append(@,
                    [kind |-> "InvokeExpression",
                     maybePositionStart |-> MaybePositionStartOf(invokeExprXorNode),
                     maybePositionEnd |-> MaybePositionEndOf(invokeExprXorNode),
                     maybeName |-> [defined |-> maybeName.defined, name |-> maybeName.name],
                     maybeArguments |-> maybeArguments])]
         IN IF /\ invokeExprXorNode.kind = "Ast"
               /\ IsTokenPositionOnPosition(closeWrapperConstant.node.tokenRange.positionEnd,
                                            st.position)
            THEN st
            ELSE IF maybeName.thrown THEN Thrown(st)
            ELSE IF maybeCsvArrayXorNode = UndefinedXor THEN InvokeNode(st, NoArguments)
            ELSE InvokeNode(inspected.st,
                    [defined |-> TRUE,
                     numArguments |-> Len(argXorNodes),
                     positionArgumentIndex |->
                        IF inspected.maybePositionArgumentIndex # Undefined
                        THEN inspected.maybePositionArgumentIndex ELSE 0])

\* inspectRecursivePrimaryExpression
InspectRecursivePrimaryExpression(st, coll, recursivePrimaryExprXorNode) ==
    LET maybeHeadXorNode ==
            MaybeChildByAttributeIndex(coll, recursivePrimaryExprXorNode.node.id, 0, {})
    IN IF maybeHeadXorNode = UndefinedXor THEN st
       ELSE IF maybeHeadXorNode.node.kind # "IdentifierExpression" THEN st
       ELSE InspectIdentifierExpression(st, coll, maybeHeadXorNode)

\* inspectGeneralizedIdentifier
InspectGeneralizedIdentifier(st, genIdentifierXorNode) ==
    IF genIdentifierXorNode.kind # "Ast" THEN st
    ELSE IF genIdentifierXorNode.node.kind # "GeneralizedIdentifier" THEN Thrown(st)
    ELSE IF IsTokenPositionOnOrBeforeBeforePostion(
                genIdentifierXorNode.node.tokenRange.positionEnd, st.position)
         THEN AddToScopeIfNew(st, genIdentifierXorNode.node.literal, genIdentifierXorNode)
         ELSE st

\* inspectParameter
InspectParameter(st, coll, parameterXorNode) ==
    LET maybeNameXorNode ==
            MaybeChildByAttributeIndex(coll, parameterXorNode.node.id, 1, {"Identifier"})
    IN IF maybeNameXorNode = UndefinedXor THEN st
       ELSE InspectIdentifier(st, coll, maybeNameXorNode)

\* a loop of a visitor over nodes: the state threaded through Each, until a
\* call throws
RECURSIVE InspectParameters(_, _, _)
InspectParameters(st, coll, parameterXorNodes) ==
    IF parameterXorNodes = <<>> \/ st.phase = "error" THEN st
    ELSE InspectParameters(InspectParameter(st, coll, Head(parameterXorNodes)), coll,
                           Tail(parameterXorNodes))

\* maybeMultipleChildByAttributeRequest: the drilldown of
\* inspectFunctionExpression, to the ParameterList and on to its ArrayWrapper
MaybeParameterCsvArray(coll, rootNodeId) ==
    LET maybeParameterList == MaybeChildByAttributeIndex(coll, rootNodeId, 0, {"ParameterList"})
    IN IF maybeParameterList = UndefinedXor THEN UndefinedXor
       ELSE MaybeChildByAttributeIndex(coll, maybeParameterList.node.id, 1, {"ArrayWrapper"})

\* inspectFunctionExpression
InspectFunctionExpression(st, coll, fnExpressionXorNode) ==
    IF fnExpressionXorNode.node.kind # "FunctionExpression" THEN Thrown(st)
    ELSE LET maybeCsvArrayXorNode == MaybeParameterCsvArray(coll, fnExpressionXorNode.node.id)
         IN IF maybeCsvArrayXorNode = UndefinedXor THEN st
            ELSE InspectParameters(st, coll, NodesOnCsvFromCsvArray(coll, maybeCsvArrayXorNode))

\* maybeSetPositionIdentifier
MaybeSetPositionIdentifier(st, keyXorNode, valueXorNode) ==
    IF \/ ~st.maybePositionIdentifier.defined
       \/ st.resultPositionIdentifier.defined
    THEN st
    ELSE IF keyXorNode.kind # "Ast" THEN Thrown(st)
    ELSE IF keyXorNode.node.kind \notin {"GeneralizedIdentifier", "Identifier"} THEN Thrown(st)
    ELSE IF keyXorNode.node.literal = st.maybePositionIdentifier.literal
         THEN [st EXCEPT !.resultPositionIdentifier =
                    [defined |-> TRUE, kind |-> "Local",
                     identifier |-> keyXorNode.node.id, definition |-> valueXorNode.node.id]]
         ELSE st

\* inspectLetExpression: the loop over the key-value pairs
RECURSIVE InspectLetPairs(_, _, _)
InspectLetPairs(st, coll, keyValuePairXorNodes) ==
    IF keyValuePairXorNodes = <<>> \/ st.phase = "error" THEN st
    ELSE LET keyValuePairId == Head(keyValuePairXorNodes).node.id
             maybeKeyXorNode == MaybeChildByAttributeIndex(coll, keyValuePairId, 0, {"Identifier"})
             maybeValueXorNode == MaybeChildByAttributeIndex(coll, keyValuePairId, 2, {})
             inspected ==
                IF maybeKeyXorNode = UndefinedXor THEN st
                ELSE IF maybeValueXorNode # UndefinedXor
                     THEN MaybeSetPositionIdentifier(st, maybeKeyXorNode, maybeValueXorNode)
                     ELSE st
         IN InspectLetPairs(inspected, coll, Tail(keyValuePairXorNodes))

\* inspectLetExpression
InspectLetExpression(st, coll, letExprXorNode) ==
    LET maybeCsvArrayXorNode ==
            MaybeChildByAttributeIndex(coll, letExprXorNode.node.id, 1, {"ArrayWrapper"})
    IN IF maybeCsvArrayXorNode = UndefinedXor THEN st
       ELSE InspectLetPairs(st, coll, NodesOnCsvFromCsvArray(coll, maybeCsvArrayXorNode))

\* inspectListExpressionOrLiteral and the first part of
\* inspectRecordExpressionOrLiteral: the contextual node pushed to
\* result.nodes; returned is TRUE when the visitor returned at the
\* closeWrapperConstant
WrappedNode(st, coll, wrappedXorNode, nodeKind) ==
    LET closeWrapperConstant == MaybeChildByAttributeIndex(coll, wrappedXorNode.node.id, 2, {})
        pushed == [st EXCEPT !.nodes = Append(@,
                      [kind |-> nodeKind,
                       maybePositionStart |-> MaybePositionStartOf(wrappedXorNode),
                       maybePositionEnd |-> MaybePositionEndOf(wrappedXorNode)])]
    IN IF wrappedXorNode.kind = "Ast"
       THEN IF IsTokenPositionOnPosition(closeWrapperConstant.node.tokenRange.positionEnd,
                                         st.position)
            THEN [st |-> st, returned |-> TRUE]
            ELSE IF IsPositionOnTokenRange(st.position, wrappedXorNode.node.tokenRange)
                 THEN [st |-> pushed, returned |-> FALSE]
                 ELSE [st |-> st, returned |-> FALSE]
       ELSE [st |-> pushed, returned |-> FALSE]

InspectListExpressionOrLiteral(st, coll, listXorNode) ==
    WrappedNode(st, coll, listXorNode, "List").st

\* inspectRecordExpressionOrLiteral: the loop over the key-value pairs
RECURSIVE InspectRecordPairs(_, _, _)
InspectRecordPairs(st, coll, keyValuePairXorNodes) ==
    IF keyValuePairXorNodes = <<>> \/ st.phase = "error" THEN st
    ELSE LET keyValuePairId == Head(keyValuePairXorNodes).node.id
             maybeKeyXorNode ==
                MaybeChildByAttributeIndex(coll, keyValuePairId, 0, {"GeneralizedIdentifier"})
             maybeValueXorNode == MaybeChildByAttributeIndex(coll, keyValuePairId, 2, {})
             keyed == InspectGeneralizedIdentifier(st, maybeKeyXorNode)
             inspected ==
                IF maybeKeyXorNode = UndefinedXor THEN st
                ELSE IF keyed.phase # "error" /\ maybeValueXorNode # UndefinedXor
                     THEN MaybeSetPositionIdentifier(keyed, maybeKeyXorNode, maybeValueXorNode)
                     ELSE keyed
         IN InspectRecordPairs(inspected, coll, Tail(keyValuePairXorNodes))

\* inspectRecordExpressionOrLiteral
InspectRecordExpressionOrLiteral(st, coll, recordXorNode) ==
    LET wrapped == WrappedNode(st, coll, recordXorNode, "Record")
        maybeCsvArrayXorNode ==
            MaybeChildByAttributeIndex(coll, recordXorNode.node.id, 1, {"ArrayWrapper"})
    IN IF wrapped.returned THEN wrapped.st
       ELSE IF maybeCsvArrayXorNode = UndefinedXor THEN wrapped.st
       ELSE InspectRecordPairs(wrapped.st, coll,
                               NodesOnCsvFromCsvArray(coll, maybeCsvArrayXorNode))

\* inspectSection: the loop over the section members
RECURSIVE InspectSectionMembers(_, _, _)
InspectSectionMembers(st, coll, sectionMemberXorNodes) ==
    IF sectionMemberXorNodes = <<>> \/ st.phase = "error" THEN st
    ELSE LET maybeIdentifierPairedExprXorNode ==
                MaybeChildByAttributeIndex(coll, Head(sectionMemberXorNodes).node.id, 2,
                                           {"IdentifierPairedExpression"})
             identifierPairedExprId == maybeIdentifierPairedExprXorNode.node.id
             maybeNameXorNode ==
                MaybeChildByAttributeIndex(coll, identifierPairedExprId, 0, {"Identifier"})
             maybeValueXorNode ==
                MaybeChildByAttributeIndex(coll, identifierPairedExprId, 2, {})
             named == InspectIdentifier(st, coll, maybeNameXorNode)
             inspected ==
                IF maybeIdentifierPairedExprXorNode = UndefinedXor THEN st
                ELSE IF maybeNameXorNode = UndefinedXor THEN st
                ELSE IF named.phase # "error" /\ maybeValueXorNode # UndefinedXor
                     THEN MaybeSetPositionIdentifier(named, maybeNameXorNode, maybeValueXorNode)
                     ELSE named
         IN InspectSectionMembers(inspected, coll, Tail(sectionMemberXorNodes))

\* inspectSection
InspectSection(st, coll, sectionXorNode) ==
    LET maybeSectionMemberArrayXorNode ==
            MaybeChildByAttributeIndex(coll, sectionXorNode.node.id, 4, {"ArrayWrapper"})
    IN IF maybeSectionMemberArrayXorNode = UndefinedXor THEN st
       ELSE InspectSectionMembers(st, coll,
                XorChildren(coll, maybeSectionMemberArrayXorNode.node.id))

\* visitNode
VisitNodeOf(st, coll, xorNode) ==
    CASE xorNode.node.kind = "EachExpression" -> InspectEachExpression(st, xorNode)
      [] xorNode.node.kind = "FunctionExpression" ->
            InspectFunctionExpression(st, coll, xorNode)
      [] xorNode.node.kind = "LetExpression" -> InspectLetExpression(st, coll, xorNode)
      [] xorNode.node.kind \in {"ListExpression", "ListType"} ->
            InspectListExpressionOrLiteral(st, coll, xorNode)
      [] xorNode.node.kind \in {"RecordExpression", "RecordLiteral"} ->
            InspectRecordExpressionOrLiteral(st, coll, xorNode)
      [] xorNode.node.kind = "Section" -> InspectSection(st, coll, xorNode)
      [] xorNode.node.kind = "Identifier" -> InspectIdentifier(st, coll, xorNode)
      [] xorNode.node.kind = "IdentifierExpression" ->
            InspectIdentifierExpression(st, coll, xorNode)
      [] xorNode.node.kind = "InvokeExpression" -> InspectInvokeExpression(st, coll, xorNode)
      [] xorNode.node.kind = "RecursivePrimaryExpression" ->
            InspectRecursivePrimaryExpression(st, coll, xorNode)
      [] OTHER -> st

\* ------------------------------------------------------------------------
\* The inspection: the visitors run from the closest leaf to the root
\* ------------------------------------------------------------------------
InspectionColl == CollectionOf(DocumentOf(inspection.document))

\* state.maybePositionIdentifier: undefined, or the identifier the closest
\* leaf is
NoPositionIdentifier == [defined |-> FALSE]

MaybePositionIdentifiers(coll, position) ==
    LET leaf == MaybeXorNode(coll, ClosestLeafId(coll, position))
    IN {NoPositionIdentifier} \cup
       (IF leaf.node.kind \in {"Identifier", "GeneralizedIdentifier"}
        THEN {[defined |-> TRUE, literal |-> leaf.node.literal]} ELSE {})

\* tryInspection enters the walk with an empty result
InspectionInit ==
    /\ \E name \in DocumentNames, position \in Positions :
          \E maybePositionIdentifier \in
                MaybePositionIdentifiers(CollectionOf(DocumentOf(name)), position) :
             inspection =
                [phase |-> "visiting", document |-> name, position |-> position,
                 maybePositionIdentifier |-> maybePositionIdentifier,
                 ancestry |-> AncestryIds(CollectionOf(DocumentOf(name)),
                                 ClosestLeafId(CollectionOf(DocumentOf(name)), position)),
                 index |-> 0, scope |-> <<>>, nodes |-> <<>>,
                 resultPositionIdentifier |-> NoPositionIdentifier]
    /\ lexerSnapshot = SnapshotOf(0)
    /\ tokenIndex = 0
    /\ maybeCurrentToken = UndefinedToken
    /\ maybeCurrentTokenKind = KindOf(UndefinedToken)
    /\ priorIdCounter = 0
    /\ contextState = NewContextState
    /\ maybeCurrentContextNode = Undefined
    /\ backups = <<>>
    /\ startedById = EmptyMap
    /\ idHighWater = 0
    /\ lastOp = NoOp

\* the visitor of the next node of the ancestry runs
VisitNode ==
    /\ inspection.phase = "visiting"
    /\ LET xorNode == MaybeXorNode(InspectionColl, inspection.ancestry[inspection.index + 1])
           visited == VisitNodeOf(inspection, InspectionColl, xorNode)
       IN inspection' =
            [visited EXCEPT
                !.index = inspection.index + 1,
                !.phase = IF visited.phase = "error" THEN "error"
                          ELSE IF inspection.index + 1 = Len(inspection.ancestry)
                               THEN "done" ELSE "visiting"]
    /\ UNCHANGED parserVars

InspectionNext == VisitNode

InspectionSpec == InspectionInit /\ [][InspectionNext]_vars

\* where the node a key is bound to starts
BindingStartOf(xorNode) == MaybePositionStartOf(xorNode)

\* C10: once the scope visitors have run over the ancestry of the cursor's
\* leaf, the scope map has no key bound to a node whose positionStart is
\* strictly after the position; an identifier-expression argument of an
\* enclosing invoke expression that lies after the cursor is not in scope.
NoForwardReferenceInScope ==
    inspection.phase = "done" =>
        \A i \in 1..Len(inspection.scope) :
            ~PosLess(inspection.position, BindingStartOf(inspection.scope[i].xorNode))

\* ------------------------------------------------------------------------
\* What a document binds, read off its tree
\* ------------------------------------------------------------------------
\* the node the next step of the walk visits
VisitedXorNode == MaybeXorNode(InspectionColl, inspection.ancestry[inspection.index + 1])

Visiting(nodeKind) ==
    /\ inspection.phase = "visiting"
    /\ VisitedXorNode.node.kind = nodeKind

ParentIdOf(coll, id) == MapGetId(coll.parentIdById, id)

KindOfId(coll, id) ==
    IF MaybeXorNode(coll, id) = UndefinedXor THEN "undefined"
    ELSE MaybeXorNode(coll, id).node.kind

\* the ids of the children of parentId at an attribute index
ChildIdsAt(coll, parentId, attributeIndex) ==
    {id \in LiveIds(coll) :
        /\ ParentIdOf(coll, id) = parentId
        /\ MaybeXorNode(coll, id).node.maybeAttributeIndex = attributeIndex}

\* the ids of the nodes of a kind that the Csv elements of the ArrayWrapper
\* at attributeIndex under parentId hold
CsvNodeIdsOf(coll, parentId, attributeIndex) ==
    {id \in LiveIds(coll) :
        /\ KindOfId(coll, ParentIdOf(coll, id)) = "Csv"
        /\ MaybeXorNode(coll, id).node.maybeAttributeIndex = 0
        /\ ParentIdOf(coll, ParentIdOf(coll, id)) \in ChildIdsAt(coll, parentId, attributeIndex)}

\* the key-value pairs of a let expression whose key and value are parsed
LetBindingsOf(coll, letId) ==
    {b \in [key : DOMAIN coll.astNodeById, value : LiveIds(coll)] :
        /\ coll.astNodeById[b.key].kind = "Identifier"
        /\ ParentIdOf(coll, b.key) = ParentIdOf(coll, b.value)
        /\ ParentIdOf(coll, b.key) \in CsvNodeIdsOf(coll, letId, 1)
        /\ MaybeXorNode(coll, b.key).node.maybeAttributeIndex = 0
        /\ MaybeXorNode(coll, b.value).node.maybeAttributeIndex = 2}

\* C11: visiting a LetExpression adds every identifier bound in its
\* key-value array whose positionEnd is on or before the position, mapped to
\* its value node (if the key was not in the scope map before), and adds no
\* let-bound identifier whose positionEnd is after the position.
LetAddsBoundIdentifiers ==
    [][Visiting("LetExpression") =>
          \A b \in LetBindingsOf(InspectionColl, VisitedXorNode.node.id) :
              LET key == InspectionColl.astNodeById[b.key]
              IN IF PosLeq(key.tokenRange.positionEnd, inspection.position)
                 THEN /\ ScopeHas(inspection'.scope, key.literal)
                      /\ ~ScopeHas(inspection.scope, key.literal) =>
                            ScopeGet(inspection'.scope, key.literal).node.id = b.value
                 ELSE ~ScopeHas(inspection.scope, key.literal) =>
                            ~ScopeHas(inspection'.scope, key.literal)]_vars

\* the parameter nodes of a function expression whose name is parsed
ParameterIdsOf(coll, fnId) ==
    {id \in UNION {CsvNodeIdsOf(coll, parameterList, 1) : parameterList \in ChildIdsAt(coll, fnId, 0)} :
        \E name \in ChildIdsAt(coll, id, 1) : KindOfId(coll, name) = "Identifier"}

ParameterNameOf(coll, parameterId) ==
    MaybeXorNode(coll, CHOOSE name \in ChildIdsAt(coll, parameterId, 1) : TRUE).node

\* the indexes of the ancestry at which a function expression stands
FunctionIndexes ==
    {i \in 1..Len(inspection.ancestry) :
        KindOfId(InspectionColl, inspection.ancestry[i]) = "FunctionExpression"}

InvokeLeavesScopeUnchanged ==
    [][Visiting("InvokeExpression") => inspection'.scope = inspection.scope]_vars

\* the arguments of an invoke expression, and the index of one of them
ArgumentIdsOf(coll, invokeId) == CsvNodeIdsOf(coll, invokeId, 1)

ArgumentIndexOf(coll, invokeId, argumentId) ==
    Cardinality({id \in ArgumentIdsOf(coll, invokeId) : id < argumentId})

\* the position is within the range of a node: from its start to its end, or
\* from its start on for a context node, which has no end yet
PositionIsIn(position, xorNode) ==
    IF xorNode.kind = "Ast"
    THEN /\ PosLeq(xorNode.node.tokenRange.positionStart, position)
         /\ PosLeq(position, xorNode.node.tokenRange.positionEnd)
    ELSE PosLeq(xorNode.node.maybeTokenStart.positionStart, position)

\* the head of the RecursivePrimaryExpression an invoke expression is the
\* first element of, if that head is an IdentifierExpression
InvokedHeadIdsOf(coll, invokeId) ==
    IF MaybeXorNode(coll, invokeId).node.maybeAttributeIndex # 0 THEN {}
    ELSE LET recursiveExprId == ParentIdOf(coll, ParentIdOf(coll, invokeId))
         IN IF KindOfId(coll, recursiveExprId) # "RecursivePrimaryExpression" THEN {}
            ELSE {id \in ChildIdsAt(coll, recursiveExprId, 0) :
                     KindOfId(coll, id) = "IdentifierExpression"}

\* the name an identifier expression spells: its '@', if any, and its
\* identifier
SpelledNameOf(coll, identifierExprId) ==
    LET Literals(attributeIndex) ==
            {MaybeXorNode(coll, id).node.literal : id \in ChildIdsAt(coll, identifierExprId, attributeIndex)}
        inclusive == IF Literals(0) = {} THEN "" ELSE CHOOSE l \in Literals(0) : TRUE
    IN inclusive \o (CHOOSE l \in Literals(1) : TRUE)

\* C14: the invocation context recorded for an InvokeExpression with a parsed
\* argument array has numArguments equal to the number of arguments and
\* positionArgumentIndex equal to the index of the argument whose range
\* contains the position, on whatever lines the arguments stand; maybeName is
\* the head identifier, with its '@', exactly when the invoke stands at
\* attribute index 0 under a RecursivePrimaryExpression whose head is an
\* IdentifierExpression.
InvocationContextRecorded ==
    [][(/\ Visiting("InvokeExpression")
        /\ Len(inspection'.nodes) = Len(inspection.nodes) + 1
        /\ inspection'.nodes[Len(inspection'.nodes)].maybeArguments.defined) =>
          LET invokeId == VisitedXorNode.node.id
              recorded == inspection'.nodes[Len(inspection'.nodes)]
              heads == InvokedHeadIdsOf(InspectionColl, invokeId)
          IN /\ recorded.maybeArguments.numArguments
                    = Cardinality(ArgumentIdsOf(InspectionColl, invokeId))
             /\ \A arg \in ArgumentIdsOf(InspectionColl, invokeId) :
                    PositionIsIn(inspection.position, MaybeXorNode(InspectionColl, arg)) =>
                        recorded.maybeArguments.positionArgumentIndex
                            = ArgumentIndexOf(InspectionColl, invokeId, arg)
             /\ recorded.maybeName.defined <=> heads # {}
             /\ \A head \in heads :
                    recorded.maybeName.name = SpelledNameOf(InspectionColl, head)]_vars

\* the member names of a section: the Identifier of each member's
\* IdentifierPairedExpression
SectionMemberNameIdsOf(coll, sectionId) ==
    {id \in DOMAIN coll.astNodeById :
        /\ coll.astNodeById[id].kind = "Identifier"
        /\ coll.astNodeById[id].maybeAttributeIndex = 0
        /\ KindOfId(coll, ParentIdOf(coll, id)) = "IdentifierPairedExpression"
        /\ KindOfId(coll, ParentIdOf(coll, ParentIdOf(coll, id))) = "SectionMember"
        /\ ParentIdOf(coll, ParentIdOf(coll, ParentIdOf(coll, id)))
              \in ChildIdsAt(coll, sectionId, 4)}

\* C15: visiting a Section leaves every section member's name in the scope
\* map, for every position, members declared after the position included.
SectionAddsEveryMember ==
    [][Visiting("Section") =>
          \A name \in SectionMemberNameIdsOf(InspectionColl, VisitedXorNode.node.id) :
              ScopeHas(inspection'.scope, InspectionColl.astNodeById[name].literal)]_vars

\* C16: visiting a FunctionExpression leaves the name of every parameter
\* whose name is parsed in the scope map, bound to that parameter's node
\* unless the key was present before the visit.
FunctionAddsEveryParameter ==
    [][Visiting("FunctionExpression") =>
          \A parameter \in ParameterIdsOf(InspectionColl, VisitedXorNode.node.id) :
              LET name == ParameterNameOf(InspectionColl, parameter).literal
              IN /\ ScopeHas(inspection'.scope, name)
                 /\ ~ScopeHas(inspection.scope, name) =>
                        ScopeGet(inspection'.scope, name).node.id = parameter]_vars

\* ------------------------------------------------------------------------
\* positionUtils.ts: the position predicates
\* ------------------------------------------------------------------------
\* isBeforeTokenPosition
IsBeforeTokenPosition(position, tokenPosition, isBoundIncluded) ==
    IF position.lineNumber < tokenPosition.lineNumber THEN TRUE
    ELSE IF position.lineNumber > tokenPosition.lineNumber THEN FALSE
    ELSE LET upperBound == IF isBoundIncluded THEN tokenPosition.lineCodeUnit
                           ELSE tokenPosition.lineCodeUnit + 1
         IN position.lineCodeUnit < upperBound

\* isOnTokenPosition
IsOnTokenPosition(position, tokenPosition) ==
    /\ position.lineNumber = tokenPosition.lineNumber
    /\ position.lineCodeUnit = tokenPosition.lineCodeUnit

\* a comparison of the code units alone
IsAfterTokenPositionIgnoringLine(position, tokenPosition, isBoundIncluded) ==
    LET upperBound == IF isBoundIncluded THEN tokenPosition.lineCodeUnit
                      ELSE tokenPosition.lineCodeUnit - 1
    IN position.lineCodeUnit > upperBound

\* isAfterTokenPosition
IsAfterTokenPosition(position, tokenPosition, isBoundIncluded) ==
    IF position.lineNumber < tokenPosition.lineNumber THEN FALSE
    ELSE IF position.lineNumber > tokenPosition.lineNumber THEN TRUE
    ELSE LET upperBound == IF isBoundIncluded THEN tokenPosition.lineCodeUnit
                           ELSE tokenPosition.lineCodeUnit - 1
         IN position.lineCodeUnit > upperBound

\* isBeforeAstNode
IsBeforeAstNode(position, astNode, isBoundIncluded) ==
    IsBeforeTokenPosition(position, astNode.tokenRange.positionStart, isBoundIncluded)

\* isAfterAstNode
IsAfterAstNode(position, astNode, isBoundIncluded) ==
    IsAfterTokenPosition(position, astNode.tokenRange.positionEnd, isBoundIncluded)

\* a test of the lower bound alone
IsInAstNodeUnlessBefore(position, astNode, isLowerBoundIncluded, isHigherBoundIncluded) ==
    ~IsBeforeAstNode(position, astNode, isLowerBoundIncluded)

\* isInAstNode
IsInAstNode(position, astNode, isLowerBoundIncluded, isHigherBoundIncluded) ==
    /\ ~IsBeforeAstNode(position, astNode, isLowerBoundIncluded)
    /\ ~IsAfterAstNode(position, astNode, isHigherBoundIncluded)

\* isOnAstNodeStart
IsOnAstNodeStart(position, astNode) ==
    IsOnTokenPosition(position, astNode.tokenRange.positionStart)

\* isOnAstNodeEnd
IsOnAstNodeEnd(position, astNode) ==
    IsOnTokenPosition(position, astNode.tokenRange.positionEnd)

\* maybeRightMostLeaf: descends rightward through childIdsById to a leaf;
\* the id of that AST leaf, if the descent ends at one
RECURSIVE MaybeRightMostLeaf(_, _)
MaybeRightMostLeaf(coll, id) ==
    IF MapHas(coll.childIdsById, id)
    THEN MaybeRightMostLeaf(coll, coll.childIdsById[id][Len(coll.childIdsById[id])])
    ELSE IF MapHas(coll.astNodeById, id) THEN id ELSE Undefined

\* isBeforeContextNode
IsBeforeContextNode(position, contextNode, isBoundIncluded) ==
    IF contextNode.maybeTokenStart = UndefinedTok THEN FALSE
    ELSE IsBeforeTokenPosition(position, contextNode.maybeTokenStart.positionStart,
                               isBoundIncluded)

\* a context node without a leaf that ends where its first token starts
IsAfterContextNodeAtStart(position, coll, contextNode, isBoundIncluded) ==
    LET maybeLeaf == MaybeRightMostLeaf(coll, contextNode.id)
    IN IF maybeLeaf = Undefined
       THEN IF contextNode.maybeTokenStart = UndefinedTok THEN FALSE
            ELSE IsAfterTokenPosition(position, contextNode.maybeTokenStart.positionStart,
                                      isBoundIncluded)
       ELSE IsAfterAstNode(position, coll.astNodeById[maybeLeaf], isBoundIncluded)

\* isAfterContextNode
IsAfterContextNode(position, coll, contextNode, isBoundIncluded) ==
    LET maybeLeaf == MaybeRightMostLeaf(coll, contextNode.id)
    IN IF maybeLeaf = Undefined
       THEN IF contextNode.maybeTokenStart = UndefinedTok THEN FALSE
            ELSE IsAfterTokenPosition(position, contextNode.maybeTokenStart.positionEnd,
                                      isBoundIncluded)
       ELSE IsAfterAstNode(position, coll.astNodeById[maybeLeaf], isBoundIncluded)

\* isInContextNode
IsInContextNode(position, coll, contextNode, isLowerBoundIncluded, isHigherBoundIncluded) ==
    /\ ~IsBeforeContextNode(position, contextNode, isLowerBoundIncluded)
    /\ ~IsAfterContextNode(position, coll, contextNode, isHigherBoundIncluded)

\* isOnContextNodeStart
IsOnContextNodeStart(position, contextNode) ==
    IF contextNode.maybeTokenStart # UndefinedTok
    THEN IsOnTokenPosition(position, contextNode.maybeTokenStart.positionStart)
    ELSE FALSE

\* isOnContextNodeEnd
IsOnContextNodeEnd(position, contextNode, coll) ==
    LET maybeLeaf == MaybeRightMostLeaf(coll, contextNode.id)
    IN IF maybeLeaf = Undefined THEN FALSE
       ELSE IsOnAstNodeEnd(position, coll.astNodeById[maybeLeaf])

\* isBeforeXorNode
IsBeforeXorNode(position, xorNode, isBoundIncluded) ==
    IF xorNode.kind = "Ast" THEN IsBeforeAstNode(position, xorNode.node, isBoundIncluded)
    ELSE IsBeforeContextNode(position, xorNode.node, isBoundIncluded)

\* isInXorNode
IsInXorNode(position, coll, xorNode, isLowerBoundIncluded, isUpperBoundIncluded) ==
    IF xorNode.kind = "Ast"
    THEN IsInAstNode(position, xorNode.node, isLowerBoundIncluded, isUpperBoundIncluded)
    ELSE IsInContextNode(position, coll, xorNode.node, isLowerBoundIncluded,
                         isUpperBoundIncluded)

\* isOnXorNodeStart
IsOnXorNodeStart(position, xorNode) ==
    IF xorNode.kind = "Ast" THEN IsOnAstNodeStart(position, xorNode.node)
    ELSE IsOnContextNodeStart(position, xorNode.node)

\* isOnXorNodeEnd
IsOnXorNodeEnd(position, xorNode, coll) ==
    IF xorNode.kind = "Ast" THEN IsOnAstNodeEnd(position, xorNode.node)
    ELSE IsOnContextNodeEnd(position, xorNode.node, coll)

\* isAfterXorNode
IsAfterXorNode(position, coll, xorNode, isBoundIncluded) ==
    IF xorNode.kind = "Ast" THEN IsAfterAstNode(position, xorNode.node, isBoundIncluded)
    ELSE IsAfterContextNode(position, coll, xorNode.node, isBoundIncluded)

\* ------------------------------------------------------------------------
\* The position predicates applied to a position and a node of a document
\* ------------------------------------------------------------------------
PositionDocumentNames ==
    {"invokeSplitArgument", "partialEachTwoLines", "partialIdentifier",
     "partialIdentifierOnLiteral"}

PositionInit ==
    /\ \E name \in PositionDocumentNames, position \in Positions :
          \E nodeId \in LiveIds(CollectionOf(DocumentOf(name))),
             isLowerBoundIncluded \in BOOLEAN, isUpperBoundIncluded \in BOOLEAN :
             inspection =
                [phase |-> "asked", document |-> name, position |-> position,
                 nodeId |-> nodeId,
                 isLowerBoundIncluded |-> isLowerBoundIncluded,
                 isUpperBoundIncluded |-> isUpperBoundIncluded]
    /\ lexerSnapshot = SnapshotOf(0)
    /\ tokenIndex = 0
    /\ maybeCurrentToken = UndefinedToken
    /\ maybeCurrentTokenKind = KindOf(UndefinedToken)
    /\ priorIdCounter = 0
    /\ contextState = NewContextState
    /\ maybeCurrentContextNode = Undefined
    /\ backups = <<>>
    /\ startedById = EmptyMap
    /\ idHighWater = 0
    /\ lastOp = NoOp

\* the five predicates are asked about the position and the node; isBefore
\* is asked with the lower bound's setting, isAfter with the upper bound's
EvaluatePosition ==
    /\ inspection.phase = "asked"
    /\ LET xorNode == MaybeXorNode(InspectionColl, inspection.nodeId)
       IN inspection' =
            [phase |-> "answered", document |-> inspection.document,
             position |-> inspection.position, nodeId |-> inspection.nodeId,
             isLowerBoundIncluded |-> inspection.isLowerBoundIncluded,
             isUpperBoundIncluded |-> inspection.isUpperBoundIncluded,
             isBefore |-> IsBeforeXorNode(inspection.position, xorNode,
                                          inspection.isLowerBoundIncluded),
             isIn |-> IsInXorNode(inspection.position, InspectionColl, xorNode,
                                  inspection.isLowerBoundIncluded,
                                  inspection.isUpperBoundIncluded),
             isOnStart |-> IsOnXorNodeStart(inspection.position, xorNode),
             isOnEnd |-> IsOnXorNodeEnd(inspection.position, xorNode, InspectionColl),
             isAfter |-> IsAfterXorNode(inspection.position, InspectionColl, xorNode,
                                        inspection.isUpperBoundIncluded)]
    /\ UNCHANGED parserVars

PositionNext == EvaluatePosition

PositionSpec == PositionInit /\ [][PositionNext]_vars

\* the node the predicates were asked about
AnsweredXorNode == MaybeXorNode(InspectionColl, inspection.nodeId)

\* C17: for an AST node n and a position p, isInAstNode is true iff
\* start(n) <= p <= end(n) in the order on (lineNumber, lineCodeUnit), the
\* comparison strict at a bound that is not included; isBeforeAstNode with
\* its bound included iff p < start(n); isAfterAstNode with its bound
\* included iff p > end(n); isOnAstNodeStart / isOnAstNodeEnd iff p is the
\* start / the end.
PositionPredicatesAreLexOrder ==
    (inspection.phase = "answered" /\ AnsweredXorNode.kind = "Ast") =>
        LET start == AnsweredXorNode.node.tokenRange.positionStart
            end == AnsweredXorNode.node.tokenRange.positionEnd
            p == inspection.position
        IN /\ inspection.isIn <=>
                /\ IF inspection.isLowerBoundIncluded THEN PosLeq(start, p) ELSE PosLess(start, p)
                /\ IF inspection.isUpperBoundIncluded THEN PosLeq(p, end) ELSE PosLess(p, end)
           /\ inspection.isLowerBoundIncluded => (inspection.isBefore <=> PosLess(p, start))
           /\ inspection.isUpperBoundIncluded => (inspection.isAfter <=> PosLess(end, p))
           /\ inspection.isOnStart <=> p = start
           /\ inspection.isOnEnd <=> p = end

\* the predicates answered for a position on the second line of an AST node
\* that spans two lines
PositionInSplitNodeWitness ==
    /\ inspection.phase = "answered"
    /\ AnsweredXorNode.kind = "Ast"
    /\ AnsweredXorNode.node.tokenRange.positionStart.lineNumber
          < AnsweredXorNode.node.tokenRange.positionEnd.lineNumber
    /\ inspection.position.lineNumber = AnsweredXorNode.node.tokenRange.positionEnd.lineNumber
    /\ inspection.isIn
    /\ ~inspection.isAfter

\* a context node without a right-most leaf was asked about
ContextWithoutLeaf ==
    /\ inspection.phase = "answered"
    /\ AnsweredXorNode.kind = "Context"
    /\ MaybeRightMostLeaf(InspectionColl, inspection.nodeId) = Undefined

\* C18 as claimed: for a context node without a right-most leaf isAfterXorNode
\* is false for every position and both bound settings, and isInXorNode is
\* true for every position at or after the node's start.
ContextWithoutLeafIsNeverAfter ==
    ContextWithoutLeaf =>
        LET tokenStart == AnsweredXorNode.node.maybeTokenStart
        IN /\ ~inspection.isAfter
           /\ (\/ tokenStart = UndefinedTok
               \/ PosLess(tokenStart.positionStart, inspection.position)
               \/ /\ tokenStart.positionStart = inspection.position
                  /\ inspection.isLowerBoundIncluded)
              => inspection.isIn

\* C18 as amended: a context node without a right-most leaf and without a
\* start token is never after and always in; with a start token the end of
\* that token stands for the node's end.
ContextWithoutLeafEndsAtItsToken ==
    ContextWithoutLeaf =>
        LET tokenStart == AnsweredXorNode.node.maybeTokenStart
            p == inspection.position
        IN IF tokenStart = UndefinedTok
           THEN ~inspection.isAfter /\ inspection.isIn
           ELSE /\ inspection.isAfter <=>
                     IF inspection.isUpperBoundIncluded
                     THEN PosLess(tokenStart.positionEnd, p)
                     ELSE PosLeq(tokenStart.positionEnd, p)
                /\ inspection.isIn <=>
                     /\ IF inspection.isLowerBoundIncluded
                        THEN PosLeq(tokenStart.positionStart, p)
                        ELSE PosLess(tokenStart.positionStart, p)
                     /\ ~inspection.isAfter

\* a position past the start token of a context node that has no leaf
PastTokenOfContextWithoutLeafWitness ==
    /\ ContextWithoutLeaf
    /\ AnsweredXorNode.node.maybeTokenStart # UndefinedTok
    /\ PosLess(AnsweredXorNode.node.maybeTokenStart.positionEnd, inspection.position)
    /\ inspection.isAfter
    /\ ~inspection.isIn

\* ------------------------------------------------------------------------
\* nodeIdMapIterator.ts: siblings
\* ------------------------------------------------------------------------
MaxOffset == 2

Offsets == (0 - MaxOffset)..MaxOffset

\* assertIterChildIds
AssertIterChildIds(childIdsById, nodeId) == childIdsById[nodeId]

\* maybeNthSiblingXor; childIds[attributeIndex] past the end of the array is
\* undefined, and so is the XOR node of that id
MaybeNthSiblingXor(coll, rootId, offset) ==
    LET childXorNode == MaybeXorNode(coll, rootId)
        attributeIndex == childXorNode.node.maybeAttributeIndex + offset
        parentId == coll.parentIdById[rootId]
        childIds == AssertIterChildIds(coll.childIdsById, parentId)
    IN IF childXorNode.node.maybeAttributeIndex = Undefined THEN UndefinedXor
       ELSE IF attributeIndex < 0 THEN UndefinedXor
       ELSE IF Len(childIds) >= attributeIndex THEN UndefinedXor
       ELSE IF attributeIndex + 1 \in DOMAIN childIds
            THEN MaybeXorNode(coll, childIds[attributeIndex + 1])
            ELSE UndefinedXor

\* maybeNextSiblingXor
MaybeNextSiblingXor(coll, nodeId) == MaybeNthSiblingXor(coll, nodeId, 1)

SiblingInit ==
    /\ \E name \in DocumentNames, offset \in Offsets :
          \E rootId \in LiveIds(CollectionOf(DocumentOf(name))) :
             inspection = [phase |-> "siblingAsked", document |-> name,
                           rootId |-> rootId, offset |-> offset]
    /\ lexerSnapshot = SnapshotOf(0)
    /\ tokenIndex = 0
    /\ maybeCurrentToken = UndefinedToken
    /\ maybeCurrentTokenKind = KindOf(UndefinedToken)
    /\ priorIdCounter = 0
    /\ contextState = NewContextState
    /\ maybeCurrentContextNode = Undefined
    /\ backups = <<>>
    /\ startedById = EmptyMap
    /\ idHighWater = 0
    /\ lastOp = NoOp

\* maybeNthSiblingXor(collection, rootId, offset) is called
NthSibling ==
    /\ inspection.phase = "siblingAsked"
    /\ inspection' =
          [phase |-> "siblingAnswered", document |-> inspection.document,
           rootId |-> inspection.rootId, offset |-> inspection.offset,
           maybeSibling |-> IF inspection.offset = 1
                            THEN MaybeNextSiblingXor(InspectionColl, inspection.rootId)
                            ELSE MaybeNthSiblingXor(InspectionColl, inspection.rootId,
                                                    inspection.offset)]
    /\ UNCHANGED parserVars

SiblingNext == NthSibling

SiblingSpec == SiblingInit /\ [][SiblingNext]_vars

\* the ids of the children of rootId's parent at rootId's attribute index
\* plus offset
SiblingIdsOf(coll, rootId, offset) ==
    IF MaybeXorNode(coll, rootId).node.maybeAttributeIndex = Undefined THEN {}
    ELSE ChildIdsAt(coll, ParentIdOf(coll, rootId),
                    MaybeXorNode(coll, rootId).node.maybeAttributeIndex + offset)

\* C19: maybeNthSiblingXor returns the XOR node of the parent's child whose
\* attribute index is the node's attribute index plus the offset whenever
\* there is such a child, and undefined only when the node has no attribute
\* index or the target index is negative or not below the number of children.
NthSiblingReturnedWhenItExists ==
    inspection.phase = "siblingAnswered" =>
        LET siblings == SiblingIdsOf(InspectionColl, inspection.rootId, inspection.offset)
        IN IF siblings = {} THEN inspection.maybeSibling = UndefinedXor
           ELSE \E id \in siblings :
                   inspection.maybeSibling = MaybeXorNode(InspectionColl, id)

\* ------------------------------------------------------------------------
\* tasks.ts: the inspection state tryScopeType and tryType start from
\* ------------------------------------------------------------------------
MaxCachedId == 2

CachedIds == 1..MaxCachedId

Types == {"number", "text"}

\* a scope is the set of the keys it binds
Scopes == {{"x"}, {"x", "y"}}

\* the maps of some of the ids to the values
MapsInto(ids, values) == UNION {[D -> values] : D \in SUBSET ids}

UndefinedTypeCache == [defined |-> FALSE]

\* TypeCache: the types by node id and the scopes by node id
TypeCaches ==
    {UndefinedTypeCache} \cup
    {[defined |-> TRUE, typeById |-> t, scopeById |-> sc] :
        t \in MapsInto(CachedIds, Types), sc \in MapsInto(CachedIds, Scopes)}

\* InspectTypeState as tryScopeType builds it
TryScopeTypeState(maybeTypeCache) ==
    [givenTypeById |-> IF maybeTypeCache.defined THEN maybeTypeCache.typeById ELSE EmptyMap,
     deltaTypeById |-> EmptyMap,
     scopeById |-> IF maybeTypeCache.defined THEN maybeTypeCache.scopeById ELSE EmptyMap]

\* InspectTypeState as tryType builds it
TryTypeState(maybeTypeCache) ==
    [givenTypeById |-> IF maybeTypeCache.defined THEN maybeTypeCache.scopeById ELSE EmptyMap,
     deltaTypeById |-> EmptyMap,
     scopeById |-> IF maybeTypeCache.defined THEN maybeTypeCache.typeById ELSE EmptyMap]

NoTypeState == [started |-> FALSE]

TypeInit ==
    /\ \E maybeTypeCache \in TypeCaches :
          inspection = [phase |-> "type", maybeTypeCache |-> maybeTypeCache,
                        scopeTypeState |-> NoTypeState, typeState |-> NoTypeState]
    /\ lexerSnapshot = SnapshotOf(0)
    /\ tokenIndex = 0
    /\ maybeCurrentToken = UndefinedToken
    /\ maybeCurrentTokenKind = KindOf(UndefinedToken)
    /\ priorIdCounter = 0
    /\ contextState = NewContextState
    /\ maybeCurrentContextNode = Undefined
    /\ backups = <<>>
    /\ startedById = EmptyMap
    /\ idHighWater = 0
    /\ lastOp = NoOp

\* tryScopeType is called with the cache
TryScopeType ==
    /\ inspection.phase = "type"
    /\ inspection.scopeTypeState = NoTypeState
    /\ inspection' = [inspection EXCEPT
                         !.scopeTypeState = TryScopeTypeState(inspection.maybeTypeCache)]
    /\ UNCHANGED parserVars

\* tryType is called with the cache
TryType ==
    /\ inspection.phase = "type"
    /\ inspection.typeState = NoTypeState
    /\ inspection' = [inspection EXCEPT
                         !.typeState = TryTypeState(inspection.maybeTypeCache)]
    /\ UNCHANGED parserVars

TypeNext == TryScopeType \/ TryType

TypeSpec == TypeInit /\ [][TypeNext]_vars

\* C20: tryType and tryScopeType wire a supplied TypeCache alike: in both
\* the state's givenTypeById is the cache's typeById and its scopeById is the
\* cache's scopeById.
TypeCacheWiredIdentically ==
    (/\ inspection.phase = "type"
     /\ inspection.maybeTypeCache.defined
     /\ inspection.scopeTypeState # NoTypeState
     /\ inspection.typeState # NoTypeState) =>
        /\ inspection.scopeTypeState.givenTypeById = inspection.maybeTypeCache.typeById
        /\ inspection.scopeTypeState.scopeById = inspection.maybeTypeCache.scopeById
        /\ inspection.typeState.givenTypeById = inspection.maybeTypeCache.typeById
        /\ inspection.typeState.scopeById = inspection.maybeTypeCache.scopeById

\* ------------------------------------------------------------------------
\* inspectTypeParameter.ts: the type of a parameter
\* ------------------------------------------------------------------------
\* the parser variables of a session that has not begun
ParserAtRest ==
    /\ lexerSnapshot = SnapshotOf(0)
    /\ tokenIndex = 0
    /\ maybeCurrentToken = UndefinedToken
    /\ maybeCurrentTokenKind = KindOf(UndefinedToken)
    /\ priorIdCounter = 0
    /\ contextState = NewContextState
    /\ maybeCurrentContextNode = Undefined
    /\ backups = <<>>
    /\ startedById = EmptyMap
    /\ idHighWater = 0
    /\ lastOp = NoOp

\* Type.TypeKind
TypeKinds ==
    {"any", "anyNonNull", "binary", "date", "dateTime", "dateTimeZone", "duration",
     "function", "list", "logical", "null", "number", "record", "table", "text",
     "time", "type", "action", "none", "unknown"}

\* Type.TType: the kind, the extended kind of a richer shape if there is
\* one, and isNullable
TTypes ==
    [kind : TypeKinds, maybeExtendedKind : {"undefined", "DefinedList"},
     isNullable : BOOLEAN]

\* Type.UnknownInstance
UnknownInstance ==
    [kind |-> "unknown", maybeExtendedKind |-> "undefined", isNullable |-> FALSE]

\* a parameter parsed in full: [optional] x [as type]
ParameterDocument(isOptional, isTyped) ==
    LET o == IF isOptional THEN 1 ELSE 0
        n == o + 1 + (IF isTyped THEN 2 ELSE 0)
    IN [nodes |->
           << Node("Ast", "Parameter", Undefined, Undefined, 1, n, "") >>
           \o (IF isOptional THEN << Node("Ast", "Constant", 1, 0, 1, 1, "optional") >>
               ELSE << >>)
           \o << Node("Ast", "Identifier", 1, 1, o + 1, o + 1, "x") >>
           \o (IF isTyped
               THEN << Node("Ast", "AsNullablePrimitiveType", 1, 2, o + 2, o + 3, ""),
                       Node("Ast", "Constant", o + 3, 0, o + 2, o + 2, "as"),
                       Node("Ast", "PrimitiveType", o + 3, 1, o + 3, o + 3, "") >>
               ELSE << >>),
        tokens |-> [i \in 1..n |-> Tok(0, 2 * (i - 1), 2 * i - 1)]]

\* NodeIdMapUtils.maybeChildAstByAttributeIndex: the child at the attribute
\* index if it is an AST node of an allowed kind
MaybeChildAstByAttributeIndex(coll, parentId, attributeIndex, allowedKinds) ==
    LET maybeChild == MaybeChildByAttributeIndex(coll, parentId, attributeIndex, allowedKinds)
    IN IF maybeChild # UndefinedXor /\ maybeChild.kind = "Ast" THEN maybeChild
       ELSE UndefinedXor

\* inspectTypeFromChildAttributeIndex: the type inferred for the child at the
\* attribute index, unknown when there is no such child
InspectTypeFromChildAttributeIndex(state, xorNode, attributeIndex) ==
    LET maybeChild == MaybeChildByAttributeIndex(state.nodeIdMapCollection,
                                                 xorNode.node.id, attributeIndex, {})
    IN IF maybeChild = UndefinedXor THEN UnknownInstance
       ELSE state.givenTypeById[maybeChild.node.id]

\* nullable only when both the marker and the declared type say so
InspectTypeParameterWhenBoth(state, xorNode) ==
    LET maybeOptionalConstant ==
            MaybeChildAstByAttributeIndex(state.nodeIdMapCollection, xorNode.node.id, 0,
                                          {"Constant"})
        maybeParameterType == InspectTypeFromChildAttributeIndex(state, xorNode, 2)
    IN [maybeParameterType EXCEPT
           !.isNullable = maybeOptionalConstant # UndefinedXor /\ maybeParameterType.isNullable]

\* inspectTypeParameter
InspectTypeParameter(state, xorNode) ==
    LET maybeOptionalConstant ==
            MaybeChildAstByAttributeIndex(state.nodeIdMapCollection, xorNode.node.id, 0,
                                          {"Constant"})
        maybeParameterType == InspectTypeFromChildAttributeIndex(state, xorNode, 2)
    IN [maybeParameterType EXCEPT
           !.isNullable = maybeOptionalConstant # UndefinedXor \/ maybeParameterType.isNullable]

\* the inspection state of a parameter whose declared type, if it has one,
\* was inferred as declaredType
ParameterTypeState(isOptional, isTyped, declaredType) ==
    LET coll == CollectionOf(ParameterDocument(isOptional, isTyped))
        maybeChild == MaybeChildByAttributeIndex(coll, 1, 2, {})
    IN [nodeIdMapCollection |-> coll,
        givenTypeById |-> IF maybeChild = UndefinedXor THEN EmptyMap
                          ELSE MapSet(EmptyMap, maybeChild.node.id, declaredType)]

ParameterTypeInit ==
    /\ \E isOptional \in BOOLEAN, isTyped \in BOOLEAN, declaredType \in TTypes :
          /\ ~isTyped => declaredType = UnknownInstance
          /\ inspection = [phase |-> "parameter", isOptional |-> isOptional,
                           isTyped |-> isTyped, declaredType |-> declaredType]
    /\ ParserAtRest

\* inspectTypeParameter is called on the Parameter node
InspectParameterType ==
    /\ inspection.phase = "parameter"
    /\ LET state == ParameterTypeState(inspection.isOptional, inspection.isTyped,
                                       inspection.declaredType)
       IN inspection' =
             [phase |-> "parameterTyped", isOptional |-> inspection.isOptional,
              isTyped |-> inspection.isTyped, declaredType |-> inspection.declaredType,
              type |-> InspectTypeParameter(state,
                           MaybeXorNode(state.nodeIdMapCollection, 1))]
    /\ UNCHANGED parserVars

ParameterTypeNext == InspectParameterType

ParameterTypeSpec == ParameterTypeInit /\ [][ParameterTypeNext]_vars

\* C21: inspectTypeParameter returns the declared parameter type with every
\* field unchanged except isNullable, which is true iff the parameter has a
\* parsed optional constant or the declared type is nullable.
ParameterTypeIsDeclaredTypeMadeNullable ==
    inspection.phase = "parameterTyped" =>
        /\ inspection.type.kind = inspection.declaredType.kind
        /\ inspection.type.maybeExtendedKind = inspection.declaredType.maybeExtendedKind
        /\ DOMAIN inspection.type = DOMAIN inspection.declaredType
        /\ inspection.type.isNullable <=>
              (inspection.isOptional \/ inspection.declaredType.isNullable)

\* an optional parameter declared with a type that is not nullable
OptionalParameterWitness ==
    /\ inspection.phase = "parameterTyped"
    /\ inspection.isOptional
    /\ inspection.isTyped
    /\ ~inspection.declaredType.isNullable
    /\ inspection.declaredType.kind = "number"
    /\ inspection.type.isNullable
    /\ inspection.type.kind = "number"

\* ------------------------------------------------------------------------
\* assertAncestry: the chain from a node to the root
\* ------------------------------------------------------------------------
MaxAncestryId == 3

AncestryNodeIds == 0..MaxAncestryId

\* the parent maps over the ids
ParentMaps == UNION {[D -> AncestryNodeIds] : D \in SUBSET AncestryNodeIds}

\* following parentIdById from id for at most fuel steps reaches a node
\* without a parent
RECURSIVE ReachesRoot(_, _, _)
ReachesRoot(parentIdById, id, fuel) ==
    IF ~MapHas(parentIdById, id) THEN TRUE
    ELSE IF fuel = 0 THEN FALSE
    ELSE ReachesRoot(parentIdById, parentIdById[id], fuel - 1)

IsAcyclic(parentIdById) ==
    \A id \in AncestryNodeIds : ReachesRoot(parentIdById, id, MaxAncestryId + 1)

\* the collection of context nodes with these parents
AncestryCollection(parentIdById) ==
    [astNodeById |-> EmptyMap,
     contextNodeById |->
        [id \in AncestryNodeIds |->
            [id |-> id, kind |-> "LiteralExpression", maybeAttributeIndex |-> Undefined,
             maybeTokenStart |-> UndefinedTok]],
     parentIdById |-> parentIdById,
     childIdsById |-> EmptyMap]

\* the loop of assertAncestry: while (maybeParentId) { push; get the next }
RECURSIVE AncestryIdsWhile(_, _)
AncestryIdsWhile(parentIdById, maybeParentId) ==
    IF Truthy(maybeParentId)
    THEN <<maybeParentId>> \o AncestryIdsWhile(parentIdById, MapGetId(parentIdById, maybeParentId))
    ELSE <<>>

\* NodeIdMapIterator.assertIterXor
AssertIterXor(coll, nodeIds) == [i \in 1..Len(nodeIds) |-> MaybeXorNode(coll, nodeIds[i])]

\* assertAncestry
AssertAncestry(coll, rootId) ==
    LET ancestryIds == <<rootId>> \o
            AncestryIdsWhile(coll.parentIdById, MapGetId(coll.parentIdById, rootId))
    IN AssertIterXor(coll, ancestryIds)

AncestryInit ==
    /\ \E parentIdById \in ParentMaps, rootId \in AncestryNodeIds :
          /\ IsAcyclic(parentIdById)
          /\ inspection = [phase |-> "ancestryAsked", parentIdById |-> parentIdById,
                           rootId |-> rootId]
    /\ ParserAtRest

\* assertAncestry(collection, rootId) is called
AskAncestry ==
    /\ inspection.phase = "ancestryAsked"
    /\ inspection' =
          [phase |-> "ancestryAnswered", parentIdById |-> inspection.parentIdById,
           rootId |-> inspection.rootId,
           ancestry |-> AssertAncestry(AncestryCollection(inspection.parentIdById),
                                       inspection.rootId)]
    /\ UNCHANGED parserVars

AncestryNext == AskAncestry

AncestrySpec == AncestryInit /\ [][AncestryNext]_vars

KeywordSnapshotOf(n) ==
    [i \in 1..n |-> [TokenOf(i - 1) EXCEPT
                        !.kind = IF i % 2 = 1 THEN "Identifier" ELSE "KeywordIn"]]

TestTokenKinds == {"Identifier", "KeywordIn"}

\* the IParserState object a function is handed
ParserState ==
    [lexerSnapshot |-> lexerSnapshot, tokenIndex |-> tokenIndex,
     maybeCurrentToken |-> maybeCurrentToken,
     maybeCurrentTokenKind |-> maybeCurrentTokenKind,
     contextState |-> contextState,
     maybeCurrentContextNode |-> maybeCurrentContextNode]

\* what a call leaves: the state object as the call left it, and what the
\* call returned or threw
Outcome(state, result) == [state |-> state, result |-> result]

NoError == [error |-> "undefined"]

AssertFailed == [error |-> "AssertFailed"]

\* maybeTokenWithColumnNumber
MaybeTokenWithColumnNumber(state, index) == TokenAt(state.lexerSnapshot, index)

\* maybeCurrentTokenWithColumnNumber
MaybeCurrentTokenWithColumnNumber(state) == MaybeTokenWithColumnNumber(state, state.tokenIndex)

\* an assertTokenAt that hands out the token after the one asked for
AssertTokenAtNext(state, index) == TokenAt(state.lexerSnapshot, index + 1)

\* assertTokenAt; the undefined token stands for the failed assertion
AssertTokenAt(state, index) == TokenAt(state.lexerSnapshot, index)

\* testCsvContinuationLetExpression
TestCsvContinuationLetExpression(state) ==
    IF state.maybeCurrentTokenKind = "KeywordIn"
    THEN Outcome(state, [error |-> "ExpectedCsvContinuationError", kind |-> "LetExpression",
                         maybeToken |-> MaybeCurrentTokenWithColumnNumber(state)])
    ELSE Outcome(state, NoError)

\* testCsvContinuationDanglingComma
TestCsvContinuationDanglingComma(state, tokenKind) ==
    IF state.maybeCurrentTokenKind = tokenKind
    THEN Outcome(state, [error |-> "ExpectedCsvContinuationError", kind |-> "DanglingComma",
                         maybeToken |-> MaybeCurrentTokenWithColumnNumber(state)])
    ELSE Outcome(state, NoError)

\* testIsOnTokenKind
TestIsOnTokenKind(state, expectedTokenKind) ==
    IF expectedTokenKind # state.maybeCurrentTokenKind
    THEN Outcome(state, [error |-> "ExpectedTokenKindError", expected |-> expectedTokenKind,
                         maybeToken |-> MaybeCurrentTokenWithColumnNumber(state)])
    ELSE Outcome(state, NoError)

\* testIsOnAnyTokenKind
TestIsOnAnyTokenKind(state, expectedAnyTokenKinds) ==
    LET isError == \/ state.maybeCurrentTokenKind = "undefined"
                   \/ state.maybeCurrentTokenKind \notin SeqToSet(expectedAnyTokenKinds)
    IN IF isError
       THEN Outcome(state, [error |-> "ExpectedAnyTokenKindError",
                            expected |-> expectedAnyTokenKinds,
                            maybeToken |-> MaybeCurrentTokenWithColumnNumber(state)])
       ELSE Outcome(state, NoError)

\* an assertNoMoreTokens that skips the tokens that remain
AssertNoMoreTokensSkipping(state) ==
    IF state.tokenIndex = Len(state.lexerSnapshot) THEN Outcome(state, NoError)
    ELSE Outcome([state EXCEPT !.tokenIndex = Len(state.lexerSnapshot)],
                 [error |-> "UnusedTokensRemainError",
                  token |-> AssertTokenAt(state, state.tokenIndex)])

\* assertNoMoreTokens
AssertNoMoreTokens(state) ==
    IF state.tokenIndex = Len(state.lexerSnapshot) THEN Outcome(state, NoError)
    ELSE LET token == AssertTokenAt(state, state.tokenIndex)
         IN IF token = UndefinedToken THEN Outcome(state, AssertFailed)
            ELSE Outcome(state, [error |-> "UnusedTokensRemainError", token |-> token])

\* unterminatedParenthesesError
UnterminatedParenthesesError(state) ==
    LET token == AssertTokenAt(state, state.tokenIndex)
    IN IF token = UndefinedToken THEN Outcome(state, AssertFailed)
       ELSE Outcome(state, [error |-> "UnterminatedParenthesesError", token |-> token])

\* unterminatedBracketError
UnterminatedBracketError(state) ==
    LET token == AssertTokenAt(state, state.tokenIndex)
    IN IF token = UndefinedToken THEN Outcome(state, AssertFailed)
       ELSE Outcome(state, [error |-> "UnterminatedBracketError", token |-> token])

\* a production calls one of the functions on the parser state
Called(op, outcome) ==
    /\ lexerSnapshot' = outcome.state.lexerSnapshot
    /\ tokenIndex' = outcome.state.tokenIndex
    /\ maybeCurrentToken' = outcome.state.maybeCurrentToken
    /\ maybeCurrentTokenKind' = outcome.state.maybeCurrentTokenKind
    /\ contextState' = outcome.state.contextState
    /\ maybeCurrentContextNode' = outcome.state.maybeCurrentContextNode
    /\ lastOp' = [op |-> op, result |-> outcome.result]
    /\ UNCHANGED <<backups, startedById, priorIdCounter, idHighWater, inspection>>

CallTestCsvContinuationLetExpression ==
    Called("testCsvContinuationLetExpression", TestCsvContinuationLetExpression(ParserState))

CallTestCsvContinuationDanglingComma ==
    \E tokenKind \in TestTokenKinds :
        Called("testCsvContinuationDanglingComma",
               TestCsvContinuationDanglingComma(ParserState, tokenKind))

CallTestIsOnTokenKind ==
    \E expectedTokenKind \in TestTokenKinds :
        Called("testIsOnTokenKind", TestIsOnTokenKind(ParserState, expectedTokenKind))

CallTestIsOnAnyTokenKind ==
    \E expectedAnyTokenKinds \in {<<"Identifier">>, <<"KeywordIn", "Identifier">>} :
        Called("testIsOnAnyTokenKind", TestIsOnAnyTokenKind(ParserState, expectedAnyTokenKinds))

CallAssertNoMoreTokens == Called("assertNoMoreTokens", AssertNoMoreTokens(ParserState))

CallUnterminatedParenthesesError ==
    Called("unterminatedParenthesesError", UnterminatedParenthesesError(ParserState))

CallUnterminatedBracketError ==
    Called("unterminatedBracketError", UnterminatedBracketError(ParserState))

ParserTestInit ==
    /\ lexerSnapshot \in {KeywordSnapshotOf(n) : n \in 0..MaxTokens}
    /\ tokenIndex = 0
    /\ maybeCurrentToken = TokenAt(lexerSnapshot, 0)
    /\ maybeCurrentTokenKind = KindOf(TokenAt(lexerSnapshot, 0))
    /\ priorIdCounter \in PriorIdCounters
    /\ contextState = [NewContextState EXCEPT !.idCounter = priorIdCounter]
    /\ maybeCurrentContextNode = Undefined
    /\ backups = <<>>
    /\ startedById = EmptyMap
    /\ idHighWater = priorIdCounter
    /\ lastOp = NoOp
    /\ inspection = NoInspection

ParserTestNext ==
    \/ ParserNext
    \/ CallTestCsvContinuationLetExpression
    \/ CallTestCsvContinuationDanglingComma
    \/ CallTestIsOnTokenKind
    \/ CallTestIsOnAnyTokenKind
    \/ CallAssertNoMoreTokens
    \/ CallUnterminatedParenthesesError
    \/ CallUnterminatedBracketError

ParserTestSpec == ParserTestInit /\ [][ParserTestNext]_vars

TestOps ==
    {"testCsvContinuationLetExpression", "testCsvContinuationDanglingComma",
     "testIsOnTokenKind", "testIsOnAnyTokenKind", "assertNoMoreTokens",
     "unterminatedParenthesesError", "unterminatedBracketError"}

\* C23: testIsOnTokenKind, testIsOnAnyTokenKind, the two Csv continuation
\* tests, assertNoMoreTokens and the unterminated-bracket / parentheses error
\* factories leave tokenIndex, idCounter, maybeCurrentContextNode and the
\* four node-id maps as they were, whether or not they report an error.
ErrorsLeaveThePartialTree ==
    [][lastOp'.op \in TestOps =>
          /\ tokenIndex' = tokenIndex
          /\ contextState'.idCounter = contextState.idCounter
          /\ maybeCurrentContextNode' = maybeCurrentContextNode
          /\ contextState'.nodeIdMapCollection.astNodeById = Coll.astNodeById
          /\ contextState'.nodeIdMapCollection.contextNodeById = Coll.contextNodeById
          /\ contextState'.nodeIdMapCollection.parentIdById = Coll.parentIdById
          /\ contextState'.nodeIdMapCollection.childIdsById = Coll.childIdsById]_vars

\* assertNoMoreTokens reported the tokens left while a context with a child
\* was open
ErrorOverPartialTreeWitness ==
    /\ lastOp.op = "assertNoMoreTokens"
    /\ lastOp.result.error = "UnusedTokensRemainError"
    /\ maybeCurrentContextNode # Undefined
    /\ Coll.childIdsById # EmptyMap
    /\ tokenIndex > 0

\* C28: assertNoMoreTokens returns iff tokenIndex is the number of tokens of
\* the snapshot; when tokenIndex is smaller it raises UnusedTokensRemainError
\* with the token at tokenIndex, and never for an exhausted token stream.
NoMoreTokensIffExhausted ==
    lastOp.op = "assertNoMoreTokens" =>
        /\ lastOp.result = NoError <=> tokenIndex = Len(lexerSnapshot)
        /\ tokenIndex < Len(lexerSnapshot) =>
              /\ lastOp.result.error = "UnusedTokensRemainError"
              /\ lastOp.result.token = lexerSnapshot[tokenIndex + 1]
        /\ tokenIndex >= Len(lexerSnapshot) =>
              lastOp.result.error # "UnusedTokensRemainError"

\* assertNoMoreTokens raised the error for the second token of two
UnusedTokenWitness ==
    /\ lastOp.op = "assertNoMoreTokens"
    /\ tokenIndex = 1
    /\ Len(lexerSnapshot) = 2
    /\ lastOp.result.error = "UnusedTokensRemainError"
    /\ lastOp.result.token.kind = "KeywordIn"

\* ------------------------------------------------------------------------
\* The incremental lexer: lines with modes, edits, snapshot
\* ------------------------------------------------------------------------
MaxLexerLines == 3

\* a line string is a sequence of lexemes: an identifier, a double quote,
\* the opening and the closing of a block comment
LineStrings ==
    {<< >>, <<"a">>, <<"\"">>, <<"/*">>, <<"*/">>, <<"/*", "*/">>, <<"\"", "\"">>,
     <<"a", "\"">>}

\* text: the line strings of a document, split at the line terminators
Texts == UNION {[1..n -> LineStrings] : n \in 1..MaxLexerLines}

\* a token of a line: its kind and the lexemes it holds
LineToken(kind, data) == [kind |-> kind, data |-> data]

\* tokenizes the rest of a line in a mode: the tokens, the outgoing mode and
\* the error of the line if there is one; pending holds what was read of a
\* string or comment, begunHere tells whether it began on this line
RECURSIVE TokenizeRest(_, _, _, _, _)
TokenizeRest(mode, rest, pending, begunHere, tokens) ==
    IF rest = << >>
    THEN IF mode = "Default"
         THEN [tokens |-> tokens, kindAtEnd |-> mode, maybeError |-> "undefined"]
         ELSE [tokens |-> Append(tokens,
                             LineToken(mode \o (IF begunHere THEN "Start" ELSE "Content"),
                                       pending)),
               kindAtEnd |-> mode, maybeError |-> "undefined"]
    ELSE LET head == Head(rest)
             tail == Tail(rest)
         IN IF mode = "Default"
            THEN IF head = "a"
                 THEN TokenizeRest(mode, tail, << >>, FALSE,
                                   Append(tokens, LineToken("Identifier", <<head>>)))
                 ELSE IF head = "\""
                 THEN TokenizeRest("String", tail, << >>, TRUE, tokens)
                 ELSE IF head = "/*"
                 THEN TokenizeRest("BlockComment", tail, << >>, TRUE, tokens)
                 ELSE [tokens |-> tokens, kindAtEnd |-> "Default",
                       maybeError |-> "UnexpectedRead"]
            ELSE IF (mode = "String" /\ head = "\"") \/ (mode = "BlockComment" /\ head = "*/")
                 THEN TokenizeRest("Default", tail, << >>, FALSE,
                                   Append(tokens,
                                          LineToken(mode \o (IF begunHere THEN "" ELSE "End"),
                                                    pending)))
                 ELSE TokenizeRest(mode, tail, Append(pending, head), begunHere, tokens)

\* tokenizes one line with an incoming mode
TokenizeLine(kindAtStart, lineString) ==
    LET read == TokenizeRest(kindAtStart, lineString, << >>, FALSE, << >>)
    IN [kindAtStart |-> kindAtStart, kindAtEnd |-> read.kindAtEnd,
        lineString |-> lineString, tokens |-> read.tokens,
        maybeError |-> read.maybeError]

\* stateFrom: each line in sequence, the end mode of a line threaded into the
\* start mode of the next
RECURSIVE StateFromRest(_, _, _)
StateFromRest(text, kindAtStart, lines) ==
    IF text = << >> THEN lines
    ELSE LET line == TokenizeLine(kindAtStart, Head(text))
         IN StateFromRest(Tail(text), line.kindAtEnd, Append(lines, line))

StateFrom(text) == StateFromRest(text, "Default", << >>)

\* a propagation that looks at the mode the next line ended in
ModesReconvergeAtEnd(kindAtEnd, nextLine) == kindAtEnd = nextLine.kindAtEnd

\* the propagation stops: the outgoing mode of the line just tokenized is the
\* mode stored for the boundary with the next line
ModesReconverge(kindAtEnd, nextLine) == kindAtEnd = nextLine.kindAtStart

\* re-tokenizes line i with the incoming mode and goes on to the next line
\* until the modes reconverge; the lines and how many were re-tokenized
RECURSIVE Retokenize(_, _, _, _)
Retokenize(lines, i, kindAtStart, retokenized) ==
    LET line == TokenizeLine(kindAtStart, lines[i].lineString)
        updated == [lines EXCEPT ![i] = line]
    IN IF i = Len(lines) \/ ModesReconverge(line.kindAtEnd, lines[i + 1])
       THEN [lines |-> updated, retokenized |-> retokenized + 1]
       ELSE Retokenize(updated, i + 1, line.kindAtEnd, retokenized + 1)

\* a line not yet tokenized
RawLine(kindAtStart, lineString) ==
    [kindAtStart |-> kindAtStart, kindAtEnd |-> kindAtStart, lineString |-> lineString,
     tokens |-> << >>, maybeError |-> "undefined"]

\* appendLine: the new line is tokenized from the end mode of the last line
LexerAppendLine(lines, lineString) ==
    [lines |-> Append(lines, TokenizeLine(lines[Len(lines)].kindAtEnd, lineString)),
     retokenized |-> 1]

\* tryUpdateRange on a valid range: the text from (lineStart, offsetStart) to
\* (lineEnd, offsetEnd) is replaced
LexerUpdateRange(lines, lineStart, offsetStart, lineEnd, offsetEnd, newText) ==
    LET merged == SubSeq(lines[lineStart].lineString, 1, offsetStart) \o newText
                  \o SubSeq(lines[lineEnd].lineString, offsetEnd + 1,
                            Len(lines[lineEnd].lineString))
        replaced == SubSeq(lines, 1, lineStart - 1)
                    \o << RawLine(lines[lineStart].kindAtStart, merged) >>
                    \o SubSeq(lines, lineEnd + 1, Len(lines))
    IN Retokenize(replaced, lineStart, lines[lineStart].kindAtStart, 0)

\* tryUpdateLine on a valid line number: the whole line is the range
LexerUpdateLine(lines, lineNumber, newText) ==
    LexerUpdateRange(lines, lineNumber, 0, lineNumber, Len(lines[lineNumber].lineString),
                     newText)

\* the tokens of all lines, in order
RECURSIVE FlatTokens(_)
FlatTokens(lines) ==
    IF lines = << >> THEN << >> ELSE Head(lines).tokens \o FlatTokens(Tail(lines))

\* fuses the Start / Content / End tokens of a multi-line form into one
\* token; open is the form begun and not yet ended
RECURSIVE Fuse(_, _, _)
Fuse(flat, open, fused) ==
    IF flat = << >>
    THEN IF open.kind = "none" THEN [kind |-> "Ok", tokens |-> fused]
         ELSE [kind |-> "Err", error |-> "Unterminated" \o open.kind]
    ELSE LET token == Head(flat)
         IN IF token.kind \in {"StringStart", "BlockCommentStart"}
            THEN Fuse(Tail(flat),
                      LineToken(IF token.kind = "StringStart" THEN "String" ELSE "BlockComment",
                                token.data), fused)
            ELSE IF token.kind \in {"StringContent", "BlockCommentContent"}
            THEN Fuse(Tail(flat), LineToken(open.kind, open.data \o <<"\n">> \o token.data),
                      fused)
            ELSE IF token.kind \in {"StringEnd", "BlockCommentEnd"}
            THEN Fuse(Tail(flat), LineToken("none", << >>),
                      Append(fused, LineToken(open.kind, open.data \o <<"\n">> \o token.data)))
            ELSE Fuse(Tail(flat), open, Append(fused, token))

\* LexerSnapshot.tryFrom: fails on a line error or an unterminated form
LexerSnapshotTryFrom(lines) ==
    IF \E i \in 1..Len(lines) : lines[i].maybeError # "undefined"
    THEN [kind |-> "Err", error |-> "ErrorLineMap"]
    ELSE Fuse(FlatTokens(lines), LineToken("none", << >>), << >>)

\* the same edits on the text itself
TextAppendLine(text, lineString) == Append(text, lineString)

TextUpdateRange(text, lineStart, offsetStart, lineEnd, offsetEnd, newText) ==
    SubSeq(text, 1, lineStart - 1)
    \o << SubSeq(text[lineStart], 1, offsetStart) \o newText
          \o SubSeq(text[lineEnd], offsetEnd + 1, Len(text[lineEnd])) >>
    \o SubSeq(text, lineEnd + 1, Len(text))

Edited(op, text, update) ==
    /\ inspection' = [phase |-> "lexer", text |-> text, lines |-> update.lines,
                      lastEdit |-> op, retokenized |-> update.retokenized]
    /\ UNCHANGED parserVars

LexerInit ==
    /\ \E text \in Texts :
          inspection = [phase |-> "lexer", text |-> text, lines |-> StateFrom(text),
                        lastEdit |-> "stateFrom", retokenized |-> Len(text)]
    /\ ParserAtRest

AppendLine ==
    /\ Len(inspection.lines) < MaxLexerLines
    /\ \E lineString \in LineStrings :
          Edited("appendLine", TextAppendLine(inspection.text, lineString),
                 LexerAppendLine(inspection.lines, lineString))

TryUpdateLine ==
    \E lineNumber \in 1..Len(inspection.lines), newText \in LineStrings :
       Edited("tryUpdateLine",
              TextUpdateRange(inspection.text, lineNumber, 0, lineNumber,
                              Len(inspection.text[lineNumber]), newText),
              LexerUpdateLine(inspection.lines, lineNumber, newText))

TryUpdateRange ==
    \E lineStart \in 1..Len(inspection.lines), lineEnd \in 1..Len(inspection.lines),
       newText \in LineStrings :
       \E offsetStart \in 0..Len(inspection.lines[lineStart].lineString),
          offsetEnd \in 0..Len(inspection.lines[lineEnd].lineString) :
          /\ lineStart < lineEnd \/ (lineStart = lineEnd /\ offsetStart <= offsetEnd)
          /\ TextUpdateRange(inspection.text, lineStart, offsetStart, lineEnd, offsetEnd,
                             newText)[lineStart] \in LineStrings
          /\ Edited("tryUpdateRange",
                    TextUpdateRange(inspection.text, lineStart, offsetStart, lineEnd,
                                    offsetEnd, newText),
                    LexerUpdateRange(inspection.lines, lineStart, offsetStart, lineEnd,
                                     offsetEnd, newText))

LexerNext == AppendLine \/ TryUpdateLine \/ TryUpdateRange

LexerSpec == LexerInit /\ [][LexerNext]_vars

MaxBindings == 3

KeyLiterals == {"x", "y"}

\* the keys of the bindings parsed in full, in source order
BindingKeys == UNION {[1..n -> KeyLiterals] : n \in 0..MaxBindings}

\* what follows them: nothing (the let is parsed in full), a binding whose
\* key is still a context, or a binding with this key and no value yet;
\* "noWrapper" is the let whose array wrapper was not opened yet
LastBindings == {"none", "noKey", "noWrapper"} \cup KeyLiterals

\* the nodes of binding i (from 0) under the array wrapper, the Csv having
\* the id base + 1; a binding takes four tokens: key = value ,
BindingNodes(base, i, literal, hasComma, xorKind) ==
    LET t == 4 * i + 2
    IN << Node(xorKind, "Csv", 3, i, t, IF hasComma THEN t + 3 ELSE t + 2, ""),
          Node(xorKind, "IdentifierPairedExpression", base + 1, 0, t, t + 2, ""),
          Node("Ast", "Identifier", base + 2, 0, t, t, literal),
          Node("Ast", "Constant", base + 2, 1, t + 1, t + 1, "="),
          Node(xorKind, "LiteralExpression", base + 2, 2,
               IF xorKind = "Ast" THEN t + 2 ELSE Undefined, t + 2, "1") >>
       \o (IF hasComma THEN << Node("Ast", "Constant", base + 1, 1, t + 3, t + 3, ",") >>
           ELSE << >>)

RECURSIVE CompleteBindingNodes(_, _, _)
CompleteBindingNodes(keys, i, moreFollow) ==
    IF i >= Len(keys) THEN << >>
    ELSE BindingNodes(3 + 6 * i, i, keys[i + 1], moreFollow \/ i + 1 < Len(keys), "Ast")
         \o CompleteBindingNodes(keys, i + 1, moreFollow)

\* let k1 = 1, k2 = 1, ...  followed by  in 1  when parsed in full
LetDocument(keys, last) ==
    LET n == Len(keys)
        partial == last # "none"
        xorKind == IF partial THEN "Context" ELSE "Ast"
        complete == CompleteBindingNodes(keys, 0, partial)
        base == 3 + Len(complete)
        t == 4 * n + 2
    IN IF last = "noWrapper"
       THEN [nodes |-> << Node("Context", "LetExpression", Undefined, Undefined, 1, 1, ""),
                          Node("Ast", "Constant", 1, 0, 1, 1, "let") >>,
             tokens |-> << Tok(0, 0, 3) >>]
       ELSE
       [nodes |->
           << Node(xorKind, "LetExpression", Undefined, Undefined, 1, t + 1, ""),
              Node("Ast", "Constant", 1, 0, 1, 1, "let"),
              Node(xorKind, "ArrayWrapper", 1, 1, 2, t - 1, "") >>
           \o complete
           \o (IF last = "none"
               THEN << Node("Ast", "Constant", 1, 2, t, t, "in"),
                       Node("Ast", "LiteralExpression", 1, 3, t + 1, t + 1, "1") >>
               ELSE IF last = "noKey"
               THEN << Node("Context", "Csv", 3, n, Undefined, Undefined, ""),
                       Node("Context", "IdentifierPairedExpression", base + 1, 0,
                            Undefined, Undefined, ""),
                       Node("Context", "Identifier", base + 2, 0, Undefined, Undefined, "") >>
               ELSE BindingNodes(base, n, last, FALSE, "Context")),
        tokens |-> [i \in 1..(t + 2) |-> Tok(0, 2 * (i - 1), 2 * i - 1)]]

\* NodeIdMapUtils.maybeCsv: the node a Csv holds
MaybeCsv(coll, csvXorNode) == MaybeChildByAttributeIndex(coll, csvXorNode.node.id, 0, {})

\* iterArrayWrapper: the node of every Csv; a Csv without one is left out
RECURSIVE IterCsvs(_, _)
IterCsvs(coll, csvXorNodes) ==
    IF csvXorNodes = << >> THEN << >>
    ELSE LET maybeChild == MaybeCsv(coll, Head(csvXorNodes))
         IN (IF maybeChild # UndefinedXor THEN <<maybeChild>> ELSE << >>)
            \o IterCsvs(coll, Tail(csvXorNodes))

IterArrayWrapper(coll, arrayWrapper) == IterCsvs(coll, XorChildren(coll, arrayWrapper.node.id))

\* the pair iterKeyValuePairs pushes
KeyValuePairOf(coll, keyValuePair, key) ==
    [source |-> keyValuePair, key |-> key, keyLiteral |-> LiteralOf(key),
     maybeValue |-> MaybeChildByAttributeIndex(coll, keyValuePair.node.id, 2, {})]

\* a loop that takes whatever sits at attribute index 0 as the key
RECURSIVE KeyValuePairsOfAnyKey(_, _)
KeyValuePairsOfAnyKey(coll, keyValuePairs) ==
    IF keyValuePairs = << >> THEN << >>
    ELSE LET maybeKey == MaybeChildByAttributeIndex(coll, Head(keyValuePairs).node.id, 0,
                                                    {"GeneralizedIdentifier", "Identifier"})
         IN IF maybeKey = UndefinedXor THEN << >>
            ELSE << KeyValuePairOf(coll, Head(keyValuePairs), maybeKey) >>
                 \o KeyValuePairsOfAnyKey(coll, Tail(keyValuePairs))

\* iterKeyValuePairs: the loop; it breaks at the first pair without an AST key
RECURSIVE KeyValuePairsOf(_, _)
KeyValuePairsOf(coll, keyValuePairs) ==
    IF keyValuePairs = << >> THEN << >>
    ELSE LET maybeKey == MaybeChildAstByAttributeIndex(coll, Head(keyValuePairs).node.id, 0,
                                                       {"GeneralizedIdentifier", "Identifier"})
         IN IF maybeKey = UndefinedXor THEN << >>
            ELSE << KeyValuePairOf(coll, Head(keyValuePairs), maybeKey) >>
                 \o KeyValuePairsOf(coll, Tail(keyValuePairs))

\* iterKeyValuePairs
IterKeyValuePairs(coll, arrayWrapper) ==
    KeyValuePairsOf(coll, IterArrayWrapper(coll, arrayWrapper))

\* iterLetExpression
IterLetExpression(coll, letExpression) ==
    LET maybeArrayWrapper ==
            MaybeChildByAttributeIndex(coll, letExpression.node.id, 1, {"ArrayWrapper"})
    IN IF maybeArrayWrapper = UndefinedXor THEN << >>
       ELSE IterKeyValuePairs(coll, maybeArrayWrapper)

IterInit ==
    /\ \E keys \in BindingKeys, last \in LastBindings :
          /\ last = "noWrapper" => keys = << >>
          /\ inspection = [phase |-> "iterAsked", keys |-> keys, last |-> last]
    /\ ParserAtRest

\* iterLetExpression is called on the let expression of the document
IterLet ==
    /\ inspection.phase = "iterAsked"
    /\ LET coll == CollectionOf(LetDocument(inspection.keys, inspection.last))
       IN inspection' =
             [phase |-> "iterAnswered", keys |-> inspection.keys, last |-> inspection.last,
              pairs |-> IterLetExpression(coll, MaybeXorNode(coll, 1))]
    /\ UNCHANGED parserVars

IterNext == IterLet

IterSpec == IterInit /\ [][IterNext]_vars

\* the keys of the bindings whose key is an AST identifier, in source order
ParsedKeys ==
    inspection.keys \o (IF inspection.last \in KeyLiterals THEN <<inspection.last>> ELSE << >>)

\* C25: iterLetExpression returns the key-value pairs in source order with
\* keyLiteral the literal of each key: n pairs for a let parsed in full with
\* n bindings, and for a partial let the pairs before the first binding whose
\* key is not yet an AST identifier.
LetPairsInSourceOrder ==
    inspection.phase = "iterAnswered" =>
        LET pairs == inspection.pairs
        IN /\ Len(pairs) = Len(ParsedKeys)
           /\ inspection.last = "none" => Len(pairs) = Len(inspection.keys)
           /\ inspection.last = "noWrapper" => pairs = << >>
           /\ \A i \in 1..Len(pairs) :
                 /\ pairs[i].keyLiteral = ParsedKeys[i]
                 /\ pairs[i].key.kind = "Ast"
                 /\ pairs[i].key.node.kind = "Identifier"
                 /\ pairs[i].key.node.literal = pairs[i].keyLiteral
                 /\ pairs[i].source.node.kind = "IdentifierPairedExpression"
                 /\ pairs[i].source.node.id = 5 + 6 * (i - 1)

\* two bindings parsed in full and a third whose key is still a context
PartialLetWitness ==
    /\ inspection.phase = "iterAnswered"
    /\ inspection.keys = <<"x", "y">>
    /\ inspection.last = "noKey"
    /\ Len(inspection.pairs) = 2
    /\ inspection.pairs[2].keyLiteral = "y"

\* ------------------------------------------------------------------------
\* tasks.ts: inspectScopeType, the types of the items of a scope
\* ------------------------------------------------------------------------
MaxScopeItems == 2

\* the ids of the nodes scope items stand for; the last is never cached
ScopeItemIds == 1..(MaxCachedId + 1)

FoundTypes == Types \cup {"unknown"}

\* a scope item: its key in the scope, the id of its node, and the type an
\* inspection of that node finds
ScopeItems == [key : {"x", "y", "z"}, id : ScopeItemIds, found : FoundTypes]

\* ScopeItemByKey in iteration order: the keys differ, and one node has one type
ScopeItemsByKey ==
    {sc \in UNION {[1..n -> ScopeItems] : n \in 0..MaxScopeItems} :
        \A i, j \in 1..Len(sc) :
            /\ (i # j => sc[i].key # sc[j].key)
            /\ (sc[i].id = sc[j].id => sc[i].found = sc[j].found)}

\* getOrFindScopeItemType: the memoized type if there is one, else the type
\* the inspection finds
GetOrFindScopeItemType(state, scopeItem) ==
    IF MapHas(state.givenTypeById, scopeItem.id) THEN state.givenTypeById[scopeItem.id]
    ELSE IF MapHas(state.deltaTypeById, scopeItem.id) THEN state.deltaTypeById[scopeItem.id]
    ELSE scopeItem.found

\* a first loop that finds the type of every scope item anew
RECURSIVE FindScopeItemTypesAnew(_, _, _)
FindScopeItemTypesAnew(state, scopeItems, found) ==
    IF scopeItems = << >> THEN [state |-> state, found |-> found]
    ELSE LET scopeItem == Head(scopeItems)
         IN FindScopeItemTypesAnew(
                [state EXCEPT !.deltaTypeById =
                    MapSet(state.deltaTypeById, scopeItem.id, scopeItem.found)],
                Tail(scopeItems), Append(found, scopeItem.id))

\* inspectScopeType, first loop: the type of every scope item whose id is
\* not in givenTypeById goes to deltaTypeById; found lists the ids asked for
RECURSIVE FindScopeItemTypes(_, _, _)
FindScopeItemTypes(state, scopeItems, found) ==
    IF scopeItems = << >> THEN [state |-> state, found |-> found]
    ELSE LET scopeItem == Head(scopeItems)
         IN IF ~MapHas(state.givenTypeById, scopeItem.id)
            THEN FindScopeItemTypes(
                     [state EXCEPT !.deltaTypeById =
                         MapSet(state.deltaTypeById, scopeItem.id,
                                GetOrFindScopeItemType(state, scopeItem))],
                     Tail(scopeItems), Append(found, scopeItem.id))
            ELSE FindScopeItemTypes(state, Tail(scopeItems), found)

\* inspectScopeType, second loop: every entry of deltaTypeById is set in
\* givenTypeById
MergeDelta(state) ==
    [state EXCEPT !.givenTypeById =
        [id \in (DOMAIN state.givenTypeById) \cup (DOMAIN state.deltaTypeById) |->
            IF MapHas(state.deltaTypeById, id) THEN state.deltaTypeById[id]
            ELSE state.givenTypeById[id]]]

\* inspectScopeType, third loop: the result in the iteration order of the
\* scope; a missing type fails the assertion
ScopeTypeByKey(state, scopeItems) ==
    IF \E i \in 1..Len(scopeItems) : ~MapHas(state.givenTypeById, scopeItems[i].id)
    THEN [failed |-> TRUE, byKey |-> << >>]
    ELSE [failed |-> FALSE,
          byKey |-> [i \in 1..Len(scopeItems) |->
                        [key |-> scopeItems[i].key,
                         type |-> state.givenTypeById[scopeItems[i].id]]]]

\* inspectScopeType; assertGetOrCreateScope yields scopeItems
InspectScopeType(state, scopeItems) ==
    LET first == FindScopeItemTypes(state, scopeItems, << >>)
        merged == MergeDelta(first.state)
    IN [state |-> merged, found |-> first.found,
        result |-> ScopeTypeByKey(merged, scopeItems)]

ScopeTypeInit ==
    /\ \E maybeTypeCache \in TypeCaches, scopeItems \in ScopeItemsByKey :
          /\ maybeTypeCache.defined => maybeTypeCache.scopeById = EmptyMap
          /\ inspection = [phase |-> "scopeAsked", maybeTypeCache |-> maybeTypeCache,
                           scopeItems |-> scopeItems]
    /\ ParserAtRest

\* tryScopeType is called; a supplied cache's typeById is the map
\* givenTypeById, which the call writes to
CallTryScopeType ==
    /\ inspection.phase = "scopeAsked"
    /\ LET done == InspectScopeType(TryScopeTypeState(inspection.maybeTypeCache),
                                    inspection.scopeItems)
       IN inspection' =
             [phase |-> "scopeAnswered", maybeTypeCache |-> inspection.maybeTypeCache,
              scopeItems |-> inspection.scopeItems,
              typeById |-> done.state.givenTypeById,
              found |-> done.found, result |-> done.result]
    /\ UNCHANGED parserVars

ScopeTypeNext == CallTryScopeType

ScopeTypeSpec == ScopeTypeInit /\ [][ScopeTypeNext]_vars

\* C26: with a supplied cache, tryScopeType does not find anew the type of a
\* scope item whose id is in the cache's typeById and reports its cached type;
\* after the call typeById has an entry for every scope item's id, and the
\* result has exactly the scope's keys in its iteration order, each with
\* typeById[scopeItem.id].
ScopeTypesAreMemoized ==
    (inspection.phase = "scopeAnswered" /\ inspection.maybeTypeCache.defined) =>
        LET given == inspection.maybeTypeCache.typeById
            scopeItems == inspection.scopeItems
            result == inspection.result.byKey
        IN /\ ~inspection.result.failed
           /\ Len(result) = Len(scopeItems)
           /\ \A i \in 1..Len(scopeItems) :
                 /\ MapHas(inspection.typeById, scopeItems[i].id)
                 /\ result[i].key = scopeItems[i].key
                 /\ result[i].type = inspection.typeById[scopeItems[i].id]
                 /\ MapHas(given, scopeItems[i].id) =>
                       /\ result[i].type = given[scopeItems[i].id]
                       /\ \A j \in 1..Len(inspection.found) :
                             inspection.found[j] # scopeItems[i].id

\* a cached item whose inspection would find another type, next to an item
\* that is not cached
MemoizedScopeItemWitness ==
    /\ inspection.phase = "scopeAnswered"
    /\ inspection.maybeTypeCache.defined
    /\ Len(inspection.scopeItems) = 2
    /\ MapHas(inspection.maybeTypeCache.typeById, inspection.scopeItems[1].id)
    /\ inspection.scopeItems[1].found # inspection.maybeTypeCache.typeById[inspection.scopeItems[1].id]
    /\ ~MapHas(inspection.maybeTypeCache.typeById, inspection.scopeItems[2].id)
    /\ inspection.result.byKey[2].type = inspection.scopeItems[2].found
    /\ inspection.found = << inspection.scopeItems[2].id >>

\* ------------------------------------------------------------------------
\* visitNode.ts: the contextual node of a list or a record
\* ------------------------------------------------------------------------
WrappedKinds ==
    [ListExpression |-> "List", ListLiteral |-> "List",
     RecordExpression |-> "Record", RecordLiteral |-> "Record"]

\* the lists and records parsed in full among the ancestors of the leaf
WrappedAncestorIds ==
    {inspection.ancestry[i] : i \in 1..Len(inspection.ancestry)} \cap
    {id \in DOMAIN InspectionColl.astNodeById :
        InspectionColl.astNodeById[id].kind \in DOMAIN WrappedKinds}

\* how many contextual nodes of the kind carry the range
NodesCarrying(nodes, nodeKind, tokenRange) ==
    Cardinality({i \in 1..Len(nodes) :
        /\ nodes[i].kind = nodeKind
        /\ nodes[i].maybePositionStart = tokenRange.positionStart
        /\ nodes[i].maybePositionEnd = tokenRange.positionEnd})

\* the position is in the range of the list or record and not on the end of
\* its closing wrapper constant
PositionInsideWrapped(position, id) ==
    LET xorNode == MaybeXorNode(InspectionColl, id)
        closeWrapperConstant == MaybeChildByAttributeIndex(InspectionColl, id, 2, {})
    IN /\ PositionIsIn(position, xorNode)
       /\ position # closeWrapperConstant.node.tokenRange.positionEnd

\* C27: a list (record) parsed in full that is an ancestor of the leaf, whose
\* token range contains the position in (lineNumber, lineCodeUnit) order, on
\* however many lines it stands, the position not being the end of its closing
\* wrapper constant, has exactly one List (Record) contextual node with its
\* range in result.nodes.
WrappedAncestorRecordedOnce ==
    inspection.phase = "done" =>
        \A id \in WrappedAncestorIds :
            PositionInsideWrapped(inspection.position, id) =>
                NodesCarrying(inspection.nodes,
                              WrappedKinds[InspectionColl.astNodeById[id].kind],
                              InspectionColl.astNodeById[id].tokenRange) = 1

\* ------------------------------------------------------------------------
\* IParserStateUtils: the token cursor after newState and after a restore
\* ------------------------------------------------------------------------
AfterNewStateOrRestore == lastOp.op \in {"newState", "applyFastStateBackup"}

\* the current token and its kind are those of the snapshot at tokenIndex
TokenCursorAtTokenIndex ==
    /\ tokenIndex >= 0
    /\ IF tokenIndex < Len(lexerSnapshot)
       THEN /\ maybeCurrentToken = lexerSnapshot[tokenIndex + 1]
            /\ maybeCurrentTokenKind = lexerSnapshot[tokenIndex + 1].kind
       ELSE /\ maybeCurrentToken = UndefinedToken
            /\ maybeCurrentTokenKind = "undefined"

\* C30: right after newState and after every applyFastStateBackup,
\* maybeCurrentToken is the snapshot token at tokenIndex (undefined past the
\* last token) and maybeCurrentTokenKind is its kind (undefined without a
\* token); neither operation changes lexerSnapshot.
TokenCursorCoherent ==
    /\ [](AfterNewStateOrRestore => TokenCursorAtTokenIndex)
    /\ [][AfterNewStateOrRestore' => lexerSnapshot' = lexerSnapshot]_vars

\* a restore that moved the cursor back onto an earlier token
CursorMovedBackWitness ==
    /\ Restored
    /\ tokenIndex < lastOp.tokenIndexBefore
    /\ maybeCurrentToken = lexerSnapshot[tokenIndex + 1]
    /\ maybeCurrentToken # UndefinedToken

\* ------------------------------------------------------------------------
\* positionUtils.ts: a position is before, in or after an AST node
\* ------------------------------------------------------------------------
\* how many of the answers are true
TrueAmong(answers) == Cardinality({i \in 1..Len(answers) : answers[i]})

\* C29: for a position p and an AST node n whose positionStart is not after
\* its positionEnd, exactly one of isBeforeAstNode(p, n, true),
\* isInAstNode(p, n, true, true) and isAfterAstNode(p, n, true) is true, and
\* isInAstNode with both bounds excluded implies isInAstNode with both
\* bounds included.
PositionTrichotomy ==
    (/\ inspection.phase = "answered"
     /\ AnsweredXorNode.kind = "Ast"
     /\ PosLeq(AnsweredXorNode.node.tokenRange.positionStart,
               AnsweredXorNode.node.tokenRange.positionEnd)) =>
        LET n == AnsweredXorNode.node
            p == inspection.position
        IN /\ TrueAmong(<< IsBeforeAstNode(p, n, TRUE),
                           IsInAstNode(p, n, TRUE, TRUE),
                           IsAfterAstNode(p, n, TRUE) >>) = 1
           /\ (inspection.isLowerBoundIncluded /\ inspection.isUpperBoundIncluded) =>
                 TrueAmong(<< inspection.isBefore, inspection.isIn, inspection.isAfter >>) = 1
           /\ IsInAstNode(p, n, FALSE, FALSE) => IsInAstNode(p, n, TRUE, TRUE)
           /\ (~inspection.isLowerBoundIncluded /\ ~inspection.isUpperBoundIncluded
               /\ inspection.isIn) => IsInAstNode(p, n, TRUE, TRUE)

\* a position strictly inside an AST node, asked with both bounds excluded
StrictlyInsideWitness ==
    /\ inspection.phase = "answered"
    /\ AnsweredXorNode.kind = "Ast"
    /\ ~inspection.isLowerBoundIncluded
    /\ ~inspection.isUpperBoundIncluded
    /\ inspection.isIn
    /\ IsInAstNode(inspection.position, AnsweredXorNode.node, TRUE, TRUE)
    /\ ~IsBeforeAstNode(inspection.position, AnsweredXorNode.node, TRUE)
    /\ ~IsAfterAstNode(inspection.position, AnsweredXorNode.node, TRUE)

====
